---- MODULE Spec2Model ----
(***************************************************************************)
(* Model of the EAD normalisation engine of hub3 (hub3/ead/ead.go): the    *)
(* conversion of a parsed archival description (Cdsc, nested components    *)
(* c01..c12) into an order-, depth- and parent-chain-stamped NodeList, in  *)
(* full and in sparse fidelity.                                            *)
(*                                                                         *)
(* Go values are modelled as follows.                                      *)
(*   - a struct is a record with the Go field names;                       *)
(*   - a pointer that may be nil is a sequence of length 0 (nil) or 1;     *)
(*   - an error is a string, "" being the nil error;                       *)
(*   - a []string that is shared between callers is a slice header         *)
(*     [arr, len] into a heap of backing arrays [cap, elems], so that      *)
(*     append writes in place when the capacity allows, as Go does.        *)
(***************************************************************************)
EXTENDS Integers, Sequences, FiniteSets, TLC

VARIABLES
    dsc,        \* the parsed description handed to the engine (read-only input)
    resFull,    \* what the last NewNodeList call returned
    resSparse,  \* what the last NewSparseNodeList call returned
    cdid,       \* an identification block handed to NewHeader (read-only input)
    hdrFull,    \* what the last NewHeader(false) call returned
    hdrSparse,  \* what the last NewHeader(true) call returned
    conc,       \* conversions running in concurrent goroutines, and their counters
    store,      \* a namespace memoryStore and the goroutines calling it
    server      \* an ikuzo server in listenAndServe, its channels and workers

vars == <<dsc, resFull, resSparse, cdid, hdrFull, hdrSparse, conc, store, server>>

\* the variables of the parts of the program
convVars == <<dsc, resFull, resSparse>>
headerVars == <<cdid, hdrFull, hdrSparse>>

\* the values of conc, store and server in the specifications that do not
\* run that part of the program
NoConc == [cells |-> <<>>, runs |-> <<>>]
NoStore == [used |-> FALSE]
NoServer == [pc |-> "none"]

\* ---------------------------------------------------------------------------
\* Bounds of the model
\* ---------------------------------------------------------------------------
\* components in one input description (roots plus nested descendants)
MaxNodes == 6
\* deepest nesting level of an input component (c01 is level 1)
MaxDepth == 5
\* unit identifiers of an identification block (header specification)
MaxIds == 3
\* unit titles of an identification block (header specification)
MaxTitles == 2
\* unit dates nested in one unit title (header specification)
MaxDates == 2

\* ---------------------------------------------------------------------------
\* Header resolution: Cunitid.NewNodeID, Cdid.NewNodeIDs, Cunitdate.NewNodeDate,
\* Cdid.NewHeader
\* ---------------------------------------------------------------------------
NewNodeID(ui) ==
    [ID |-> ui.ID, TypeID |-> ui.Attridentifier, Type |-> ui.Attrtype,
     Audience |-> ui.Attraudience]

\* mutant of IsInventoryType: the empty type is left out of the case list
IsInventoryTypeNoEmpty(t) == t \in {"ABS", "series_code"}

\* the case list of the switch on id.GetType()
IsInventoryType(t) == t \in {"ABS", "series_code", ""}

\* mutant of NewNodeIDsLoop: only identifiers of a recognised type are listed
RECURSIVE NewNodeIDsLoopRecognised(_, _, _, _, _)
NewNodeIDsLoopRecognised(unitids, i, sparse, ids, invertoryNumber) ==
    IF i > Len(unitids)
    THEN [ids |-> ids, inventoryNumber |-> invertoryNumber]
    ELSE LET id == NewNodeID(unitids[i])
             inv == IF IsInventoryType(id.Type) THEN id.ID ELSE invertoryNumber
             idsN == IF ~sparse /\ IsInventoryType(id.Type) THEN Append(ids, id) ELSE ids
         IN  NewNodeIDsLoopRecognised(unitids, i + 1, sparse, idsN, inv)

RECURSIVE NewNodeIDsLoop(_, _, _, _, _)
NewNodeIDsLoop(unitids, i, sparse, ids, invertoryNumber) ==
    IF i > Len(unitids)
    THEN [ids |-> ids, inventoryNumber |-> invertoryNumber]
    ELSE LET id == NewNodeID(unitids[i])
             inv == IF IsInventoryType(id.Type) THEN id.ID ELSE invertoryNumber
             idsN == IF ~sparse THEN Append(ids, id) ELSE ids
         IN  NewNodeIDsLoop(unitids, i + 1, sparse, idsN, inv)

\* mutant of NewNodeIDs: the inventory number is resolved in full mode only
NewNodeIDsFullOnly(did, sparse) ==
    IF sparse THEN [ids |-> <<>>, inventoryNumber |-> ""]
    ELSE NewNodeIDsLoop(did.Cunitid, 1, sparse, <<>>, "")

NewNodeIDs(did, sparse) == NewNodeIDsLoop(did.Cunitid, 1, sparse, <<>>, "")

NewNodeDate(date) ==
    [Calendar |-> date.Attrcalendar, Era |-> date.Attrera,
     Normal |-> date.Attrnormal, Label |-> date.Date]

\* mutant of TitleDatesLoop: sparse mode does not reset DateAsLabel
RECURSIVE TitleDatesLoopKeepsFlag(_, _, _, _)
TitleDatesLoopKeepsFlag(dates, j, sparse, header) ==
    IF j > Len(dates) THEN header
    ELSE LET nodeDate == NewNodeDate(dates[j])
             h == IF sparse
                  THEN [header EXCEPT !.Label = Append(@, nodeDate.Label)]
                  ELSE [header EXCEPT !.Date = Append(@, nodeDate)]
         IN  TitleDatesLoopKeepsFlag(dates, j + 1, sparse, h)

\* the inner loop over the unit dates of one unit title
RECURSIVE TitleDatesLoop(_, _, _, _)
TitleDatesLoop(dates, j, sparse, header) ==
    IF j > Len(dates) THEN header
    ELSE LET nodeDate == NewNodeDate(dates[j])
             h == IF sparse
                  THEN [header EXCEPT !.Label = Append(@, nodeDate.Label),
                                      !.DateAsLabel = FALSE]
                  ELSE [header EXCEPT !.Date = Append(@, nodeDate)]
         IN  TitleDatesLoop(dates, j + 1, sparse, h)

\* mutant of TitlesLoop: no continue after a dated title, its text is added too
RECURSIVE TitlesLoopNoContinue(_, _, _, _)
TitlesLoopNoContinue(titles, i, sparse, header) ==
    IF i > Len(titles) THEN header
    ELSE LET label == titles[i]
             h == IF Len(label.Cunitdate) # 0
                  THEN TitleDatesLoop(label.Cunitdate, 1, sparse,
                                      [header EXCEPT !.DateAsLabel = TRUE])
                  ELSE header
         IN  TitlesLoopNoContinue(titles, i + 1, sparse,
                                  [h EXCEPT !.Label = Append(@, label.Title)])

\* the loop over the unit titles
RECURSIVE TitlesLoop(_, _, _, _)
TitlesLoop(titles, i, sparse, header) ==
    IF i > Len(titles) THEN header
    ELSE LET label == titles[i]
             h == IF Len(label.Cunitdate) # 0
                  THEN TitleDatesLoop(label.Cunitdate, 1, sparse,
                                      [header EXCEPT !.DateAsLabel = TRUE])
                  ELSE [header EXCEPT !.Label = Append(@, label.Title)]
         IN  TitlesLoop(titles, i + 1, sparse, h)

\* mutant of DirectDatesLoop: a direct date is put in front of the list
RECURSIVE DirectDatesLoopInFront(_, _, _)
DirectDatesLoopInFront(dates, i, header) ==
    IF i > Len(dates) THEN header
    ELSE DirectDatesLoopInFront(dates, i + 1,
                                [header EXCEPT !.Date = <<NewNodeDate(dates[i])>> \o @])

\* the loop over the direct unit dates (full mode only)
RECURSIVE DirectDatesLoop(_, _, _)
DirectDatesLoop(dates, i, header) ==
    IF i > Len(dates) THEN header
    ELSE DirectDatesLoop(dates, i + 1,
                         [header EXCEPT !.Date = Append(@, NewNodeDate(dates[i]))])

\* the zero value of Header
EmptyHeader ==
    [Label |-> <<>>, Date |-> <<>>, DateAsLabel |-> FALSE, ID |-> <<>>,
     InventoryNumber |-> "", Physdesc |-> ""]

NewHeader(did, sparse) ==
    LET h0 == IF Len(did.Cphysdesc) # 0 /\ ~sparse
              THEN [EmptyHeader EXCEPT !.Physdesc = did.Cphysdesc[1].PhyscDesc]
              ELSE EmptyHeader
        h1 == TitlesLoop(did.Cunittitle, 1, sparse, h0)
        h2 == IF ~sparse THEN DirectDatesLoop(did.Cunitdate, 1, h1) ELSE h1
        r  == NewNodeIDs(did, sparse)
        h3 == IF r.inventoryNumber # ""
              THEN [h2 EXCEPT !.InventoryNumber = r.inventoryNumber]
              ELSE h2
    IN  [h3 EXCEPT !.ID = h3.ID \o r.ids]

\* The error results of header resolution.  Every one of these functions
\* returns (value, error); the callers return the first non-nil error.
\* the error NewNodeID returns (return id, nil)
NewNodeIDErr(ui) == ""

\* mutant of NewNodeDateErr: a date without a normalised value is refused
NewNodeDateErrRefusing(date) ==
    IF date.Attrnormal = date.Date THEN "" ELSE "ead: date is not normalised"

\* the error NewNodeDate returns (return nDate, nil)
NewNodeDateErr(date) == ""

\* the first non-nil error of a sequence of errors, "" when all are nil
RECURSIVE FirstError(_)
FirstError(errs) ==
    IF errs = <<>> THEN ""
    ELSE IF errs[1] # "" THEN errs[1] ELSE FirstError(Tail(errs))

\* the error NewNodeIDs returns: the first error of NewNodeID over cdid.Cunitid
NewNodeIDsErr(did, sparse) ==
    FirstError([i \in 1..Len(did.Cunitid) |-> NewNodeIDErr(did.Cunitid[i])])

\* the errors of NewNodeDate over a sequence of unit dates
DateErrors(dates) == [j \in 1..Len(dates) |-> NewNodeDateErr(dates[j])]

\* the error NewHeader returns: from the dates nested in titles, then (full
\* mode) from the direct dates, then from NewNodeIDs
NewHeaderErr(did, sparse) ==
    FirstError(
        [i \in 1..Len(did.Cunittitle) |->
            FirstError(DateErrors(did.Cunittitle[i].Cunitdate))]
        \o (IF ~sparse THEN DateErrors(did.Cunitdate) ELSE <<>>)
        \o <<NewNodeIDsErr(did, sparse)>>)

\* ---------------------------------------------------------------------------
\* Go slices of strings: the parent chain is passed down as a slice header
\* ---------------------------------------------------------------------------
\* the nil slice
NilSlice == [arr |-> 0, len |-> 0]

\* cap(s)
CapOf(heap, s) == IF s.arr = 0 THEN 0 ELSE heap[s.arr].cap

\* the strings a slice header denotes in a heap
Deref(heap, s) == IF s.arr = 0 THEN <<>> ELSE SubSeq(heap[s.arr].elems, 1, s.len)

\* capacity of the array append allocates when the old one is full
\* (Go's growslice for small slices: double, or the needed length if larger)
GrowCap(oldCap, newLen) == IF newLen > 2 * oldCap THEN newLen ELSE 2 * oldCap

\* mutant of SliceLiteral: the literal holds the zero string, not x
SliceLiteralZero(heap, x) ==
    [heap |-> Append(heap, [cap |-> 1, elems |-> <<"">>]),
     slice |-> [arr |-> Len(heap) + 1, len |-> 1]]

\* the composite literal []string{x}: a fresh array of length and capacity 1
SliceLiteral(heap, x) ==
    [heap |-> Append(heap, [cap |-> 1, elems |-> <<x>>]),
     slice |-> [arr |-> Len(heap) + 1, len |-> 1]]

\* mutant of GoAppend: an empty string is not appended
GoAppendSkipsEmpty(heap, s, x) ==
    IF x = "" THEN [heap |-> heap, slice |-> s]
    ELSE IF s.len + 1 <= CapOf(heap, s)
    THEN [heap |-> [heap EXCEPT ![s.arr].elems[s.len + 1] = x],
          slice |-> [arr |-> s.arr, len |-> s.len + 1]]
    ELSE LET newCap == GrowCap(CapOf(heap, s), s.len + 1)
             elems == [k \in 1..newCap |->
                          IF k <= s.len THEN heap[s.arr].elems[k]
                          ELSE IF k = s.len + 1 THEN x ELSE ""]
         IN  [heap |-> Append(heap, [cap |-> newCap, elems |-> elems]),
              slice |-> [arr |-> Len(heap) + 1, len |-> s.len + 1]]

\* append(s, x): in place when len(s) < cap(s), else into a fresh, larger array
GoAppend(heap, s, x) ==
    IF s.len + 1 <= CapOf(heap, s)
    THEN [heap |-> [heap EXCEPT ![s.arr].elems[s.len + 1] = x],
          slice |-> [arr |-> s.arr, len |-> s.len + 1]]
    ELSE LET newCap == GrowCap(CapOf(heap, s), s.len + 1)
             elems == [k \in 1..newCap |->
                          IF k <= s.len THEN heap[s.arr].elems[k]
                          ELSE IF k = s.len + 1 THEN x ELSE ""]
         IN  [heap |-> Append(heap, [cap |-> newCap, elems |-> elems]),
              slice |-> [arr |-> Len(heap) + 1, len |-> s.len + 1]]

\* ---------------------------------------------------------------------------
\* Cc01.NewNode .. Cc12.NewNode
\* ---------------------------------------------------------------------------
\* mutant of AddUint64: the increment is lost
AddUint64Lost(counter, delta) == counter

\* atomic.AddUint64(counter, delta); the counter stays far below 2^64
AddUint64(counter, delta) == counter + delta

\* mutant of DepthOf: the depth is the chain length, without the + 1
DepthOfChainLength(parentIDs) == parentIDs.len

\* Depth: int32(len(parentIDs) + 1)
DepthOf(parentIDs) == parentIDs.len + 1

\* xml.Marshal(c.Cscopecontent.Cp): the paragraphs in order, or an error when
\* a value cannot be serialised
XmlMarshal(cp) ==
    IF cp.Valid
    THEN [html |-> [k \in 1..Len(cp.P) |-> <<"<p>", cp.P[k], "</p>">>], err |-> ""]
    ELSE [html |-> <<>>, err |-> "xml: unsupported type"]

\* mutant of ScopeContent: the block is serialised in sparse mode too
ScopeContentAnyMode(c, sparse) ==
    IF Len(c.Cscopecontent) # 0
    THEN XmlMarshal(c.Cscopecontent[1].Cp)
    ELSE [html |-> <<>>, err |-> ""]

\* mutant of ScopeContent: the check for a nil Cscopecontent is left out and
\* a component without a block gets an empty paragraph
ScopeContentNoNilCheck(c, sparse) ==
    IF sparse THEN [html |-> <<>>, err |-> ""]
    ELSE IF Len(c.Cscopecontent) # 0
    THEN XmlMarshal(c.Cscopecontent[1].Cp)
    ELSE [html |-> <<<<"<p>", "", "</p>">>>>, err |-> ""]

\* the scope content step shared by all levels: [html, err]
ScopeContent(c, sparse) ==
    IF Len(c.Cscopecontent) # 0 /\ ~sparse
    THEN XmlMarshal(c.Cscopecontent[1].Cp)
    ELSE [html |-> <<>>, err |-> ""]

\* mutant of Cc01NewNodeHead: a top-level component takes two numbers
Cc01NewNodeHeadSkips(c, counter, heap, sparse) ==
    LET cnt == AddUint64(counter, 2)
        herr == NewHeaderErr(c.Cdid, sparse)
        header == NewHeader(c.Cdid, sparse)
        sc == ScopeContent(c, sparse)
        node == [CTag |-> IF sparse THEN "" ELSE c.XMLName.Local,
                 Depth |-> 1,
                 Type |-> c.Attrlevel,
                 SubType |-> c.Attrotherlevel,
                 ParentIDs |-> NilSlice,
                 Order |-> cnt,
                 Header |-> header,
                 HTML |-> sc.html,
                 Nodes |-> <<>>]
        lit == SliceLiteral(heap, header.InventoryNumber)
    IN  IF herr # ""
        THEN [err |-> herr, node |-> <<>>, counter |-> cnt, heap |-> heap,
              parentIDs |-> NilSlice]
        ELSE IF sc.err # ""
        THEN [err |-> sc.err, node |-> <<>>, counter |-> cnt, heap |-> heap,
              parentIDs |-> NilSlice]
        ELSE [err |-> "", node |-> <<node>>, counter |-> cnt, heap |-> lit.heap,
              parentIDs |-> lit.slice]

\* Cc01.NewNode up to the loop over c.Nested
Cc01NewNodeHead(c, counter, heap, sparse) ==
    LET cnt == AddUint64(counter, 1)
        herr == NewHeaderErr(c.Cdid, sparse)
        header == NewHeader(c.Cdid, sparse)
        sc == ScopeContent(c, sparse)
        node == [CTag |-> IF sparse THEN "" ELSE c.XMLName.Local,
                 Depth |-> 1,
                 Type |-> c.Attrlevel,
                 SubType |-> c.Attrotherlevel,
                 ParentIDs |-> NilSlice,
                 Order |-> cnt,
                 Header |-> header,
                 HTML |-> sc.html,
                 Nodes |-> <<>>]
        lit == SliceLiteral(heap, header.InventoryNumber)
    IN  IF herr # ""
        THEN [err |-> herr, node |-> <<>>, counter |-> cnt, heap |-> heap,
              parentIDs |-> NilSlice]
        ELSE IF sc.err # ""
        THEN [err |-> sc.err, node |-> <<>>, counter |-> cnt, heap |-> heap,
              parentIDs |-> NilSlice]
        ELSE [err |-> "", node |-> <<node>>, counter |-> cnt, heap |-> lit.heap,
              parentIDs |-> lit.slice]

\* Cc02.NewNode (Cc03 .. Cc12 are copies of it) up to the loop over c.Nested
Cc02NewNodeHead(c, parentIDs, counter, heap, sparse) ==
    LET cnt == AddUint64(counter, 1)
        herr == NewHeaderErr(c.Cdid, sparse)
        header == NewHeader(c.Cdid, sparse)
        sc == ScopeContent(c, sparse)
        node == [CTag |-> IF sparse THEN "" ELSE c.XMLName.Local,
                 Depth |-> DepthOf(parentIDs),
                 Type |-> c.Attrlevel,
                 SubType |-> c.Attrotherlevel,
                 ParentIDs |-> parentIDs,
                 Order |-> cnt,
                 Header |-> header,
                 HTML |-> sc.html,
                 Nodes |-> <<>>]
        app == GoAppend(heap, parentIDs, header.InventoryNumber)
    IN  IF herr # ""
        THEN [err |-> herr, node |-> <<>>, counter |-> cnt, heap |-> heap,
              parentIDs |-> NilSlice]
        ELSE IF sc.err # ""
        THEN [err |-> sc.err, node |-> <<>>, counter |-> cnt, heap |-> heap,
              parentIDs |-> NilSlice]
        ELSE [err |-> "", node |-> <<node>>, counter |-> cnt, heap |-> app.heap,
              parentIDs |-> app.slice]

\* ---------------------------------------------------------------------------
\* The recursive descent as a machine: one Step is either the head of one
\* NewNode call (a frame is pushed), the return of one NewNode call (the frame
\* is popped and its node appended to the caller's list), an error return
\* (every caller returns the error at once), or the final return of
\* newSparseNodeList.
\*   cv.stack : the active NewNode calls, innermost last; a frame holds the
\*              component c, the node under construction, the parentIDs the
\*              call hands to its children and the index i of the next child
\*   cv.ri    : index of the next root component in dsc.Nested
\* ---------------------------------------------------------------------------
\* mutant of StartConversion: the head labels are collected in reverse order
StartConversionLabelsReversed(d, sparse) ==
    [sparse |-> sparse,
     roots |-> d.Nested,
     ri |-> 1,
     stack |-> <<>>,
     counter |-> 0,
     heap |-> <<>>,
     nl |-> [Type |-> d.Attrtype,
             Label |-> [k \in 1..Len(d.Chead) |-> d.Chead[Len(d.Chead) + 1 - k].Head],
             Nodes |-> <<>>],
     status |-> "running",
     err |-> ""]

\* newSparseNodeList up to the loop over dsc.Nested
StartConversion(d, sparse) ==
    [sparse |-> sparse,
     roots |-> d.Nested,
     ri |-> 1,
     stack |-> <<>>,
     counter |-> 0,
     heap |-> <<>>,
     nl |-> [Type |-> d.Attrtype,
             Label |-> [k \in 1..Len(d.Chead) |-> d.Chead[k].Head],
             Nodes |-> <<>>],
     status |-> "running",
     err |-> ""]

\* mutant of Entered: the callers replace the error by one of their own
EnteredOwnError(cv, c, r) ==
    IF r.err # ""
    THEN [cv EXCEPT !.status = "err", !.err = "ead: conversion failed",
                    !.stack = <<>>, !.counter = r.counter, !.heap = r.heap]
    ELSE [cv EXCEPT !.counter = r.counter, !.heap = r.heap,
                    !.stack = Append(@, [c |-> c, node |-> r.node[1],
                                         parentIDs |-> r.parentIDs, i |-> 1])]

\* a NewNode call was entered: fail the whole conversion or push its frame
Entered(cv, c, r) ==
    IF r.err # ""
    THEN [cv EXCEPT !.status = "err", !.err = r.err, !.stack = <<>>,
                    !.counter = r.counter, !.heap = r.heap]
    ELSE [cv EXCEPT !.counter = r.counter, !.heap = r.heap,
                    !.stack = Append(@, [c |-> c, node |-> r.node[1],
                                         parentIDs |-> r.parentIDs, i |-> 1])]

\* mutant of Returned: the caller puts the returned node in front of its list
ReturnedInFront(cv) ==
    LET n == Len(cv.stack)
        node == cv.stack[n].node
    IN  IF n = 1
        THEN [cv EXCEPT !.stack = <<>>,
                        !.nl.Nodes = <<node>> \o @,
                        !.ri = @ + 1]
        ELSE [cv EXCEPT !.stack = [k \in 1..(n - 1) |->
                             IF k = n - 1
                             THEN [cv.stack[k] EXCEPT !.node.Nodes = <<node>> \o @,
                                                      !.i = @ + 1]
                             ELSE cv.stack[k]]]

\* mutant of Returned: the counter is advanced on the way back as well
ReturnedCounts(cv) ==
    LET n == Len(cv.stack)
        node == cv.stack[n].node
    IN  IF n = 1
        THEN [cv EXCEPT !.stack = <<>>,
                        !.nl.Nodes = Append(@, node),
                        !.ri = @ + 1,
                        !.counter = @ + 1]
        ELSE [cv EXCEPT !.stack = [k \in 1..(n - 1) |->
                             IF k = n - 1
                             THEN [cv.stack[k] EXCEPT !.node.Nodes = Append(@, node),
                                                      !.i = @ + 1]
                             ELSE cv.stack[k]],
                        !.counter = @ + 1]

\* the innermost NewNode call returns its node to its caller
Returned(cv) ==
    LET n == Len(cv.stack)
        node == cv.stack[n].node
    IN  IF n = 1
        THEN [cv EXCEPT !.stack = <<>>,
                        !.nl.Nodes = Append(@, node),
                        !.ri = @ + 1]
        ELSE [cv EXCEPT !.stack = [k \in 1..(n - 1) |->
                             IF k = n - 1
                             THEN [cv.stack[k] EXCEPT !.node.Nodes = Append(@, node),
                                                      !.i = @ + 1]
                             ELSE cv.stack[k]]]

\* mutant of Step: the loops over Nested stop one element early
StepStopsEarly(cv) ==
    IF cv.stack = <<>>
    THEN IF cv.ri < Len(cv.roots)
         THEN LET c == cv.roots[cv.ri]
              IN  Entered(cv, c, Cc01NewNodeHead(c, cv.counter, cv.heap, cv.sparse))
         ELSE [cv EXCEPT !.status = "ok"]
    ELSE LET top == cv.stack[Len(cv.stack)]
         IN  IF top.i < Len(top.c.Nested)
             THEN LET c == top.c.Nested[top.i]
                  IN  Entered(cv, c, Cc02NewNodeHead(c, top.parentIDs, cv.counter,
                                                     cv.heap, cv.sparse))
             ELSE Returned(cv)

\* one step of the conversion
Step(cv) ==
    IF cv.stack = <<>>
    THEN IF cv.ri <= Len(cv.roots)
         THEN LET c == cv.roots[cv.ri]
              IN  Entered(cv, c, Cc01NewNodeHead(c, cv.counter, cv.heap, cv.sparse))
         ELSE [cv EXCEPT !.status = "ok"]
    ELSE LET top == cv.stack[Len(cv.stack)]
         IN  IF top.i <= Len(top.c.Nested)
             THEN LET c == top.c.Nested[top.i]
                  IN  Entered(cv, c, Cc02NewNodeHead(c, top.parentIDs, cv.counter,
                                                     cv.heap, cv.sparse))
             ELSE Returned(cv)

RECURSIVE Run(_)
Run(cv) == IF cv.status = "running" THEN Run(Step(cv)) ELSE cv

\* mutant of newSparseNodeList: on an error the tree built so far is returned
newSparseNodeListPartial(d, sparse) ==
    LET fin == Run(StartConversion(d, sparse))
    IN  [called |-> TRUE, nl |-> <<fin.nl>>, count |-> fin.counter,
         err |-> fin.err, heap |-> fin.heap]

\* what newSparseNodeList returns: (nl, count, err), with the memory the
\* returned slices point into
newSparseNodeList(d, sparse) ==
    LET fin == Run(StartConversion(d, sparse))
    IN  IF fin.status = "err"
        THEN [called |-> TRUE, nl |-> <<>>, count |-> 0, err |-> fin.err,
              heap |-> fin.heap]
        ELSE [called |-> TRUE, nl |-> <<fin.nl>>, count |-> fin.counter,
              err |-> "", heap |-> fin.heap]

\* no call made yet
NoResult == [called |-> FALSE, nl |-> <<>>, count |-> 0, err |-> "", heap |-> <<>>]

\* ---------------------------------------------------------------------------
\* Inputs: what the XML parser hands to the engine
\* ---------------------------------------------------------------------------
UnitDate(label, normal) ==
    [Attrcalendar |-> "gregorian", Attrera |-> "ce", Attrnormal |-> normal,
     Date |-> label]

UnitID(id, type) ==
    [ID |-> id, Attridentifier |-> "", Attrtype |-> type, Attraudience |-> ""]

\* a series with every optional part present; its inventory number is "A1"
TplSeries ==
    [Attrlevel |-> "series", Attrotherlevel |-> "",
     Cdid |-> [Cunitid |-> <<UnitID("X9", "other"), UnitID("A1", "ABS")>>,
               Cunittitle |-> <<[Title |-> "Letters",
                                 Cunitdate |-> <<UnitDate("1900", "1900")>>],
                                [Title |-> "Papers", Cunitdate |-> <<>>]>>,
               Cunitdate |-> <<UnitDate("1950", "1950")>>,
               Cphysdesc |-> <<[PhyscDesc |-> "1 box"]>>],
     Cscopecontent |-> <<[Cp |-> [P |-> <<"about">>, Valid |-> TRUE]]>>]

\* a file with a title and a series code only; its inventory number is "S1"
TplFile ==
    [Attrlevel |-> "file", Attrotherlevel |-> "",
     Cdid |-> [Cunitid |-> <<UnitID("S1", "series_code")>>,
               Cunittitle |-> <<[Title |-> "Letter 1", Cunitdate |-> <<>>]>>,
               Cunitdate |-> <<>>,
               Cphysdesc |-> <<>>],
     Cscopecontent |-> <<>>]

\* an item without identifiers whose descriptive block cannot be serialised
TplItem ==
    [Attrlevel |-> "otherlevel", Attrotherlevel |-> "item",
     Cdid |-> [Cunitid |-> <<UnitID("Z7", "other")>>,
               Cunittitle |-> <<>>,
               Cunitdate |-> <<>>,
               Cphysdesc |-> <<[PhyscDesc |-> "1 sheet"]>>],
     Cscopecontent |-> <<[Cp |-> [P |-> <<"broken">>, Valid |-> FALSE]]>>]

\* the component kinds one input description is built from: every description
\* of the model draws its components from one of these pairs
Palettes == {{TplSeries, TplFile}, {TplSeries, TplItem}}

\* the element name of a component of nesting level lvl
CName(lvl) ==
    <<"c01", "c02", "c03", "c04", "c05", "c06",
      "c07", "c08", "c09", "c10", "c11", "c12">>[lvl]

Component(tpl, lvl, nested) ==
    [XMLName |-> [Local |-> CName(lvl)],
     Attrlevel |-> tpl.Attrlevel,
     Attrotherlevel |-> tpl.Attrotherlevel,
     Cdid |-> tpl.Cdid,
     Cscopecontent |-> tpl.Cscopecontent,
     Nested |-> nested]

\* the shapes of the sequences of components of level lvl that hold exactly n
\* components, nested ones included, none deeper than MaxDepth; a shape is the
\* Nested field alone
RECURSIVE Shapes(_, _)
Shapes(lvl, n) ==
    IF n = 0 THEN {<<>>}
    ELSE IF lvl > MaxDepth THEN {}
    ELSE UNION {
           {<<[Nested |-> kids]>> \o rest :
                kids \in Shapes(lvl + 1, k - 1),
                rest \in Shapes(lvl, n - k)} : k \in 1..n}

RECURSIVE ShapeSize(_)
ShapeSize(f) ==
    IF f = <<>> THEN 0 ELSE 1 + ShapeSize(f[1].Nested) + ShapeSize(Tail(f))

\* the components of shape f, the i-th in document order built from tpls[i]
RECURSIVE Fill(_, _, _, _)
Fill(f, lvl, tpls, first) ==
    IF f = <<>> THEN <<>>
    ELSE <<Component(tpls[first], lvl, Fill(f[1].Nested, lvl + 1, tpls, first + 1))>>
         \o Fill(Tail(f), lvl, tpls, first + 1 + ShapeSize(f[1].Nested))

Description(f, tpls) ==
    [Attrtype |-> "combined",
     Chead |-> <<[Head |-> "Inventaris"], [Head |-> "Stukken"]>>,
     Nested |-> Fill(f, 1, tpls, 1)]

\* the description no conversion is run on (header specification)
NoDescription == [Attrtype |-> "", Chead |-> <<>>, Nested |-> <<>>]

\* ---------------------------------------------------------------------------
\* Specification of the conversion entry points
\* ---------------------------------------------------------------------------
\* NewHeader not called yet
NoHeader == [called |-> FALSE, header |-> <<>>, err |-> ""]

\* the identification block NewHeader is not called on (conversion specification)
NoDid == [Cunitid |-> <<>>, Cunittitle |-> <<>>, Cunitdate |-> <<>>, Cphysdesc |-> <<>>]

Init ==
    /\ \E n \in 0..MaxNodes :
         \E f \in Shapes(1, n) :
           \E pal \in Palettes :
             \E tpls \in [1..n -> pal] : dsc = Description(f, tpls)
    /\ resFull = NoResult
    /\ resSparse = NoResult
    /\ cdid = NoDid
    /\ hdrFull = NoHeader
    /\ hdrSparse = NoHeader
    /\ conc = NoConc /\ store = NoStore /\ server = NoServer

\* dsc.NewNodeList()
NewNodeList ==
    /\ dsc # NoDescription
    /\ resFull' = newSparseNodeList(dsc, FALSE)
    /\ UNCHANGED <<dsc, resSparse, headerVars, conc, store, server>>

\* dsc.NewSparseNodeList()
NewSparseNodeList ==
    /\ dsc # NoDescription
    /\ resSparse' = newSparseNodeList(dsc, TRUE)
    /\ UNCHANGED <<dsc, resFull, headerVars, conc, store, server>>

Next == NewNodeList \/ NewSparseNodeList

Spec == Init /\ [][Next]_vars

\* ---------------------------------------------------------------------------
\* Specification of the conversion of small descriptions: one root component
\* with at most one nested component, each put together freely from a few
\* levels, titles, identifier lists and descriptive blocks
\* ---------------------------------------------------------------------------
PlainTitle(text) == [Title |-> text, Cunitdate |-> <<>>]

SmallLevels == {"series", "file"}
SmallTitles == {<<>>, <<PlainTitle("Letters")>>, <<PlainTitle("Letter 1")>>}
SmallIds == {<<>>, <<UnitID("S1", "ABS")>>, <<UnitID("S1", "other")>>}
SmallBlocks == {TplFile.Cscopecontent, TplSeries.Cscopecontent, TplItem.Cscopecontent}

SmallComponent(lvl, level, titles, ids, block, nested) ==
    [XMLName |-> [Local |-> CName(lvl)],
     Attrlevel |-> level,
     Attrotherlevel |-> "",
     Cdid |-> [Cunitid |-> ids, Cunittitle |-> titles, Cunitdate |-> <<>>,
               Cphysdesc |-> <<>>],
     Cscopecontent |-> block,
     Nested |-> nested]

\* the components of nesting level lvl without nested components
SmallLeaves(lvl) ==
    {SmallComponent(lvl, level, titles, ids, block, <<>>) :
        level \in SmallLevels, titles \in SmallTitles, ids \in SmallIds,
        block \in SmallBlocks}

InitSmall ==
    /\ \E root \in SmallLeaves(1) :
         \E kids \in {<<>>} \cup {<<k>> : k \in SmallLeaves(2)} :
           dsc = [Attrtype |-> "combined",
                  Chead |-> <<[Head |-> "Inventaris"]>>,
                  Nested |-> <<[root EXCEPT !.Nested = kids]>>]
    /\ resFull = NoResult
    /\ resSparse = NoResult
    /\ cdid = NoDid
    /\ hdrFull = NoHeader
    /\ hdrSparse = NoHeader
    /\ conc = NoConc /\ store = NoStore /\ server = NoServer

SpecSmall == InitSmall /\ [][Next]_vars

\* ---------------------------------------------------------------------------
\* Specification of header resolution alone: NewHeader applied, in both modes,
\* to identification blocks drawn from bounded sets
\* ---------------------------------------------------------------------------
IdTypes == {"ABS", "series_code", "", "other"}
IdValues == {"A1", "S1"}
UnitIDs == {UnitID(id, type) : id \in IdValues, type \in IdTypes}
UnitDates == {UnitDate("1900", "1900"), UnitDate("ca. 1950", "1950")}
TitleTexts == {"Letters", "Papers"}

\* the sequences over S of length at most n
SeqsUpTo(S, n) == UNION {[1..k -> S] : k \in 0..n}

UnitTitles ==
    {[Title |-> t, Cunitdate |-> ds] : t \in TitleTexts, ds \in SeqsUpTo(UnitDates, MaxDates)}

\* identification blocks that vary in their identifiers
DidsByIdentifier ==
    {[Cunitid |-> ids, Cunittitle |-> TplSeries.Cdid.Cunittitle,
      Cunitdate |-> <<>>, Cphysdesc |-> <<>>] : ids \in SeqsUpTo(UnitIDs, MaxIds)}

\* identification blocks that vary in titles, dates and physical description
DidsByTitle ==
    {[Cunitid |-> TplSeries.Cdid.Cunitid, Cunittitle |-> ts,
      Cunitdate |-> ds, Cphysdesc |-> pd] :
        ts \in SeqsUpTo(UnitTitles, MaxTitles),
        ds \in SeqsUpTo(UnitDates, 1),
        pd \in {<<>>, <<[PhyscDesc |-> "1 box"]>>}}

\* identifiers with every attribute set
AttributedUnitIDs ==
    {[ID |-> "A1", Attridentifier |-> "urn:a1", Attrtype |-> "ABS",
      Attraudience |-> "internal"],
     [ID |-> "Z7", Attridentifier |-> "urn:z7", Attrtype |-> "other",
      Attraudience |-> "external"]}

\* identification blocks that vary in the attributes of their identifiers
DidsByAttribute ==
    {[Cunitid |-> ids, Cunittitle |-> TplFile.Cdid.Cunittitle,
      Cunitdate |-> <<>>, Cphysdesc |-> <<>>] :
        ids \in SeqsUpTo(AttributedUnitIDs, MaxIds)}

\* identification blocks that vary in their direct dates
DidsByDirectDate ==
    {[Cunitid |-> <<>>, Cunittitle |-> TplSeries.Cdid.Cunittitle,
      Cunitdate |-> ds, Cphysdesc |-> <<>>] :
        ds \in SeqsUpTo(UnitDates, MaxDates)}

\* what NewHeader returns: (header, nil) or (nil, err)
NewHeaderCall(did, sparse) ==
    IF NewHeaderErr(did, sparse) # ""
    THEN [called |-> TRUE, header |-> <<>>, err |-> NewHeaderErr(did, sparse)]
    ELSE [called |-> TRUE, header |-> <<NewHeader(did, sparse)>>, err |-> ""]

InitHeader ==
    /\ cdid \in DidsByIdentifier \cup DidsByTitle \cup DidsByAttribute
                \cup DidsByDirectDate
    /\ hdrFull = NoHeader
    /\ hdrSparse = NoHeader
    /\ conc = NoConc /\ store = NoStore /\ server = NoServer
    /\ dsc = NoDescription
    /\ resFull = NoResult
    /\ resSparse = NoResult

\* cdid.NewHeader(false)
NewHeaderFull ==
    /\ hdrFull' = NewHeaderCall(cdid, FALSE)
    /\ UNCHANGED <<convVars, cdid, hdrSparse, conc, store, server>>

\* cdid.NewHeader(true)
NewHeaderSparse ==
    /\ hdrSparse' = NewHeaderCall(cdid, TRUE)
    /\ UNCHANGED <<convVars, cdid, hdrFull, conc, store, server>>

NextHeader == NewHeaderFull \/ NewHeaderSparse

SpecHeader == InitHeader /\ [][NextHeader]_vars


\* ---------------------------------------------------------------------------
\* Reading a returned result
\* ---------------------------------------------------------------------------
\* the call was made and returned a nil error
Succeeded(res) == res.called /\ res.err = ""

\* the nodes of a list of nodes and of all their subtrees, in document order
RECURSIVE Flatten(_)
Flatten(nodes) ==
    IF nodes = <<>> THEN <<>>
    ELSE <<nodes[1]>> \o Flatten(nodes[1].Nodes) \o Flatten(Tail(nodes))

\* all nodes of a successful result
ResultNodes(res) == Flatten(res.nl[1].Nodes)

\* the Order values found in a list of nodes and their subtrees
Orders(nodes) == {Flatten(nodes)[k].Order : k \in 1..Len(Flatten(nodes))}

\* the ParentIDs of a node as the caller of the entry point reads them
ParentIDsOf(res, node) == Deref(res.heap, node.ParentIDs)

\* number of components of a list of input components, nested ones included
RECURSIVE CountComponents(_)
CountComponents(cs) ==
    IF cs = <<>> THEN 0
    ELSE 1 + CountComponents(cs[1].Nested) + CountComponents(Tail(cs))

\* deepest nesting level of a list of nodes (0 for the empty list)
RECURSIVE Height(_)
Height(nodes) ==
    IF nodes = <<>> THEN 0
    ELSE LET h1 == 1 + Height(nodes[1].Nodes)
             h2 == Height(Tail(nodes))
         IN  IF h1 > h2 THEN h1 ELSE h2

Results == {resFull, resSparse}

\* ---------------------------------------------------------------------------
\* C1: on success the Order values of all nodes of the returned NodeList are
\* exactly 1..totalNodeCount, none missing and none used twice.
\* ---------------------------------------------------------------------------
C1_OrdersAreOneToCount ==
    \A res \in Results :
        Succeeded(res) =>
            /\ Orders(res.nl[1].Nodes) = 1..res.count
            /\ Len(ResultNodes(res)) = res.count

C1_Witness ==
    /\ Succeeded(resFull)
    /\ resFull.count = MaxNodes
    /\ Len(resFull.nl[1].Nodes) >= 2
    /\ Height(resFull.nl[1].Nodes) >= 3

\* ---------------------------------------------------------------------------
\* C2: on success Order is assigned in pre-order: a node's Order is below the
\* Order of each of its descendants, and for siblings (or roots) A before B
\* every Order in A's subtree is below every Order in B's subtree.
\* ---------------------------------------------------------------------------
RECURSIVE PreOrdered(_)
PreOrdered(nodes) ==
    /\ \A i \in 1..Len(nodes) :
          /\ \A o \in Orders(nodes[i].Nodes) : nodes[i].Order < o
          /\ PreOrdered(nodes[i].Nodes)
    /\ \A i, j \in 1..Len(nodes) :
          i < j => \A a \in Orders(<<nodes[i]>>) :
                     \A b \in Orders(<<nodes[j]>>) : a < b

C2_OrderIsPreOrder ==
    \A res \in Results : Succeeded(res) => PreOrdered(res.nl[1].Nodes)

\* two roots, the first with a nested subtree of its own with siblings in it
C2_Witness ==
    /\ Succeeded(resSparse)
    /\ Len(resSparse.nl[1].Nodes) = 2
    /\ Len(resSparse.nl[1].Nodes[1].Nodes) = 2
    /\ Len(resSparse.nl[1].Nodes[1].Nodes[1].Nodes) = 1
    /\ Len(resSparse.nl[1].Nodes[2].Nodes) = 1

\* ---------------------------------------------------------------------------
\* C3: in a returned tree the ParentIDs of every node are the resolved
\* inventory numbers of the node's own ancestors, root first, without the
\* node's own inventory number.
\* ---------------------------------------------------------------------------
RECURSIVE ChainsAreAncestors(_, _, _)
ChainsAreAncestors(res, nodes, chain) ==
    \A i \in 1..Len(nodes) :
        /\ ParentIDsOf(res, nodes[i]) = chain
        /\ ChainsAreAncestors(res, nodes[i].Nodes,
                              Append(chain, nodes[i].Header.InventoryNumber))

C3_ParentIDsAreAncestors ==
    \A res \in Results :
        Succeeded(res) => ChainsAreAncestors(res, res.nl[1].Nodes, <<>>)

\* ---------------------------------------------------------------------------
\* C4: every node of a result has Depth = len(ParentIDs) + 1, and every root
\* node has Depth 1.
\* ---------------------------------------------------------------------------
C4_DepthIsChainLengthPlusOne ==
    \A res \in Results :
        Succeeded(res) =>
            /\ \A k \in 1..Len(ResultNodes(res)) :
                  ResultNodes(res)[k].Depth
                      = Len(ParentIDsOf(res, ResultNodes(res)[k])) + 1
            /\ \A i \in 1..Len(res.nl[1].Nodes) : res.nl[1].Nodes[i].Depth = 1

C4_Witness ==
    /\ Succeeded(resFull)
    /\ Len(resFull.nl[1].Nodes) >= 2
    /\ \E k \in 1..Len(ResultNodes(resFull)) : ResultNodes(resFull)[k].Depth = MaxDepth

\* ---------------------------------------------------------------------------
\* C5: when both succeed on the same input, the full and the sparse result
\* have the same shape, corresponding nodes have the same Order, Depth and
\* ParentIDs, and the counts are equal; only content fields differ.
\* ---------------------------------------------------------------------------
\* a result tree without its content fields
RECURSIVE Skeleton(_, _)
Skeleton(res, nodes) ==
    [k \in 1..Len(nodes) |->
        [Order |-> nodes[k].Order,
         Depth |-> nodes[k].Depth,
         ParentIDs |-> ParentIDsOf(res, nodes[k]),
         Type |-> nodes[k].Type,
         SubType |-> nodes[k].SubType,
         InventoryNumber |-> nodes[k].Header.InventoryNumber,
         Nodes |-> Skeleton(res, nodes[k].Nodes)]]

C5_ModesAgreeOnShape ==
    (Succeeded(resFull) /\ Succeeded(resSparse)) =>
        /\ Skeleton(resFull, resFull.nl[1].Nodes)
              = Skeleton(resSparse, resSparse.nl[1].Nodes)
        /\ resFull.count = resSparse.count
        /\ resFull.nl[1].Type = resSparse.nl[1].Type
        /\ resFull.nl[1].Label = resSparse.nl[1].Label

\* both succeeded on a nested input with two different inventory numbers, and
\* the results do differ in content
C5_Witness ==
    /\ Succeeded(resFull) /\ Succeeded(resSparse)
    /\ Height(resFull.nl[1].Nodes) >= 3
    /\ \E k \in 1..Len(ResultNodes(resFull)) :
          /\ ResultNodes(resFull)[k].Depth >= 3
          /\ "A1" \in {ParentIDsOf(resFull, ResultNodes(resFull)[k])[d] : d \in 1..2}
          /\ "S1" \in {ParentIDsOf(resFull, ResultNodes(resFull)[k])[d] : d \in 1..2}
    /\ resFull.nl # resSparse.nl

\* ---------------------------------------------------------------------------
\* C6: a full conversion of an input in which the descriptive block of some
\* component, at any depth, fails to serialise returns a nil NodeList, the
\* count 0 and the error; no partial tree, no skipped node.
\* ---------------------------------------------------------------------------
RECURSIVE HasUnserialisableBlock(_)
HasUnserialisableBlock(cs) ==
    \E i \in 1..Len(cs) :
        \/ Len(cs[i].Cscopecontent) # 0 /\ ~cs[i].Cscopecontent[1].Cp.Valid
        \/ HasUnserialisableBlock(cs[i].Nested)

C6_FailureAbortsWholeConversion ==
    (resFull.called /\ HasUnserialisableBlock(dsc.Nested)) =>
        /\ resFull.nl = <<>>
        /\ resFull.count = 0
        /\ resFull.err # ""

\* the first root and its subtree serialise and so does the second root
\* itself; the failing block sits below the second root
C6_Witness ==
    /\ resFull.called
    /\ resFull.err # ""
    /\ Len(dsc.Nested) = 2
    /\ Len(dsc.Nested[1].Nested) >= 1
    /\ ~HasUnserialisableBlock(<<dsc.Nested[1]>>)
    /\ ~HasUnserialisableBlock(<<[dsc.Nested[2] EXCEPT !.Nested = <<>>]>>)
    /\ HasUnserialisableBlock(dsc.Nested[2].Nested)

\* ---------------------------------------------------------------------------
\* C9: every node of a sparse result has an empty CTag, no identifiers, empty
\* HTML, an empty physical description and no dates.
\* ---------------------------------------------------------------------------
C9_SparseOmitsContent ==
    Succeeded(resSparse) =>
        \A k \in 1..Len(ResultNodes(resSparse)) :
            LET node == ResultNodes(resSparse)[k]
            IN  /\ node.CTag = ""
                /\ node.Header.ID = <<>>
                /\ node.HTML = <<>>
                /\ node.Header.Physdesc = ""
                /\ node.Header.Date = <<>>

\* the input of the sparse run carries all of these, at the root and nested
RichComponent(c) ==
    /\ c.XMLName.Local # ""
    /\ Len(c.Cdid.Cunitid) # 0
    /\ Len(c.Cscopecontent) # 0
    /\ Len(c.Cdid.Cphysdesc) # 0
    /\ Len(c.Cdid.Cunitdate) # 0
    /\ \E t \in 1..Len(c.Cdid.Cunittitle) : Len(c.Cdid.Cunittitle[t].Cunitdate) # 0

C9_Witness ==
    /\ Succeeded(resSparse)
    /\ Len(dsc.Nested) >= 1
    /\ RichComponent(dsc.Nested[1])
    /\ Len(dsc.Nested[1].Nested) >= 1
    /\ RichComponent(dsc.Nested[1].Nested[1])
    /\ Len(dsc.Nested[1].Nested[1].Nested) >= 1
    /\ RichComponent(dsc.Nested[1].Nested[1].Nested[1])

\* ---------------------------------------------------------------------------
\* C10: on success there is exactly one output node per input component, in
\* the same tree shape, and the returned count is the number of components of
\* the input; an input without roots gives the count 0 and no nodes.
\* ---------------------------------------------------------------------------
RECURSIVE SameShape(_, _)
SameShape(nodes, cs) ==
    /\ Len(nodes) = Len(cs)
    /\ \A i \in 1..Len(nodes) : SameShape(nodes[i].Nodes, cs[i].Nested)

C10_OneNodePerComponent ==
    \A res \in Results :
        Succeeded(res) =>
            /\ SameShape(res.nl[1].Nodes, dsc.Nested)
            /\ Len(ResultNodes(res)) = CountComponents(dsc.Nested)
            /\ res.count = CountComponents(dsc.Nested)
            /\ (dsc.Nested = <<>> => res.count = 0 /\ res.nl[1].Nodes = <<>>)

C10_Witness ==
    /\ Succeeded(resFull)
    /\ CountComponents(dsc.Nested) = MaxNodes
    /\ Len(dsc.Nested) = 2
    /\ Len(dsc.Nested[1].Nested) = 2
    /\ Len(dsc.Nested[2].Nested) = 2

\* ---------------------------------------------------------------------------
\* C7: in both modes the resolved InventoryNumber is the ID of the last
\* identifier, in source order, whose type is "ABS", "series_code" or empty;
\* other identifiers never change it and it is "" when no identifier has such
\* a type.  [other, ABS A1, series_code S1] gives "S1"; [ABS A1, other] "A1".
\* ---------------------------------------------------------------------------
RecognisedAt(ids) ==
    {i \in 1..Len(ids) : ids[i].Attrtype \in {"ABS", "series_code", ""}}

LastRecognisedID(ids) ==
    IF RecognisedAt(ids) = {} THEN ""
    ELSE ids[CHOOSE i \in RecognisedAt(ids) : \A j \in RecognisedAt(ids) : j <= i].ID

\* the (type, ID) pairs of an identifier list
TypedIDs(ids) == [i \in 1..Len(ids) |-> <<ids[i].Attrtype, ids[i].ID>>]

Headers == {hdrFull, hdrSparse}

C7_LastRecognisedIdentifierWins ==
    \A h \in Headers :
        h.called =>
            /\ h.header[1].InventoryNumber = LastRecognisedID(cdid.Cunitid)
            /\ (\E x \in IdValues : TypedIDs(cdid.Cunitid)
                    = << <<"other", x>>, <<"ABS", "A1">>, <<"series_code", "S1">> >>)
                  => h.header[1].InventoryNumber = "S1"
            /\ (\E x \in IdValues : TypedIDs(cdid.Cunitid)
                    = << <<"ABS", "A1">>, <<"other", x>> >>)
                  => h.header[1].InventoryNumber = "A1"

\* both modes ran on [other, ABS A1, series_code S1]
C7_Witness ==
    /\ hdrFull.called /\ hdrSparse.called
    /\ TypedIDs(cdid.Cunitid)
          = << <<"other", "S1">>, <<"ABS", "A1">>, <<"series_code", "S1">> >>
    /\ hdrSparse.header[1].InventoryNumber = "S1"

\* ---------------------------------------------------------------------------
\* C8: DateAsLabel is true exactly when the mode is full and some title
\* carries a nested date; in sparse mode it is false for every input.  One
\* title with one nested date labelled "1900" gives, in full mode, that date
\* as the only date and DateAsLabel true, and in sparse mode the label "1900"
\* and DateAsLabel false.
\* ---------------------------------------------------------------------------
HasDatedTitle(did) ==
    \E t \in 1..Len(did.Cunittitle) : Len(did.Cunittitle[t].Cunitdate) >= 1

\* one title with one nested date labelled "1900", and no direct date
OneTitleDated1900(did) ==
    /\ Len(did.Cunittitle) = 1
    /\ Len(did.Cunittitle[1].Cunitdate) = 1
    /\ did.Cunittitle[1].Cunitdate[1].Date = "1900"
    /\ did.Cunitdate = <<>>

C8_DateAsLabelOnlyInFullMode ==
    /\ hdrFull.called =>
          /\ hdrFull.header[1].DateAsLabel = HasDatedTitle(cdid)
          /\ OneTitleDated1900(cdid) =>
                /\ Len(hdrFull.header[1].Date) = 1
                /\ hdrFull.header[1].Date[1].Label = "1900"
                /\ hdrFull.header[1].Date[1].Normal
                      = cdid.Cunittitle[1].Cunitdate[1].Attrnormal
    /\ hdrSparse.called =>
          /\ hdrSparse.header[1].DateAsLabel = FALSE
          /\ OneTitleDated1900(cdid) => hdrSparse.header[1].Label = <<"1900">>

\* both modes ran on a dated title followed by an undated one
C8_Witness ==
    /\ hdrFull.called /\ hdrSparse.called
    /\ Len(cdid.Cunittitle) = 2
    /\ Len(cdid.Cunittitle[1].Cunitdate) = 2
    /\ Len(cdid.Cunittitle[2].Cunitdate) = 0
    /\ hdrFull.header[1].DateAsLabel
    /\ ~hdrSparse.header[1].DateAsLabel

\* ---------------------------------------------------------------------------
\* C11: converting one root component (level "series", title "Letters",
\* identifier ABS S1) with one child (level "file", title "Letter 1", no
\* identifiers) returns the count 2; the root has Order 1, Depth 1, no
\* ParentIDs, the labels ["Letters"] and the inventory number "S1"; the child
\* has Order 2, Depth 2, ParentIDs ["S1"] and the labels ["Letter 1"].
\* ---------------------------------------------------------------------------
LettersInput ==
    /\ Len(dsc.Nested) = 1
    /\ dsc.Nested[1].Attrlevel = "series"
    /\ dsc.Nested[1].Cdid.Cunittitle = <<PlainTitle("Letters")>>
    /\ dsc.Nested[1].Cdid.Cunitid = <<UnitID("S1", "ABS")>>
    /\ dsc.Nested[1].Cscopecontent = <<>>
    /\ Len(dsc.Nested[1].Nested) = 1
    /\ dsc.Nested[1].Nested[1].Attrlevel = "file"
    /\ dsc.Nested[1].Nested[1].Cdid.Cunittitle = <<PlainTitle("Letter 1")>>
    /\ dsc.Nested[1].Nested[1].Cdid.Cunitid = <<>>
    /\ dsc.Nested[1].Nested[1].Cscopecontent = <<>>
    /\ dsc.Nested[1].Nested[1].Nested = <<>>

C11_LettersScenario ==
    \A res \in Results :
        (res.called /\ LettersInput) =>
            /\ res.err = ""
            /\ res.count = 2
            /\ Len(res.nl[1].Nodes) = 1
            /\ LET root == res.nl[1].Nodes[1]
               IN  /\ root.Order = 1
                   /\ root.Depth = 1
                   /\ ParentIDsOf(res, root) = <<>>
                   /\ root.Header.Label = <<"Letters">>
                   /\ root.Header.InventoryNumber = "S1"
                   /\ Len(root.Nodes) = 1
                   /\ root.Nodes[1].Order = 2
                   /\ root.Nodes[1].Depth = 2
                   /\ ParentIDsOf(res, root.Nodes[1]) = <<"S1">>
                   /\ root.Nodes[1].Header.Label = <<"Letter 1">>
                   /\ root.Nodes[1].Nodes = <<>>

C11_Witness == LettersInput /\ resFull.called /\ resSparse.called

\* ---------------------------------------------------------------------------
\* C12: a conversion either succeeds with a complete NodeList or fails with
\* none.  As amended: when it fails, the error returned is the error
\* xml.Marshal gave for the first unserialisable descriptive block in document
\* order, passed on unchanged; it does not say which component failed.
\* ---------------------------------------------------------------------------
\* the components of a list of input components and of their subtrees that
\* carry an unserialisable block, in document order
RECURSIVE FailingComponents(_)
FailingComponents(cs) ==
    IF cs = <<>> THEN <<>>
    ELSE (IF Len(cs[1].Cscopecontent) # 0 /\ ~cs[1].Cscopecontent[1].Cp.Valid
          THEN <<cs[1]>> ELSE <<>>)
         \o FailingComponents(cs[1].Nested) \o FailingComponents(Tail(cs))

\* the strings of a component that tell it from others
NamesOf(c) ==
    {c.XMLName.Local, c.Attrlevel, c.Attrotherlevel}
    \cup {c.Cdid.Cunittitle[i].Title : i \in 1..Len(c.Cdid.Cunittitle)}
    \cup {c.Cdid.Cunitid[i].ID : i \in 1..Len(c.Cdid.Cunitid)}
    \cup {c.Cscopecontent[i].Cp.P[1] : i \in 1..Len(c.Cscopecontent)}

AllOrNothing(res) ==
    \/ /\ res.err = ""
       /\ Len(res.nl) = 1
       /\ SameShape(res.nl[1].Nodes, dsc.Nested)
    \/ /\ res.err # ""
       /\ res.nl = <<>>
       /\ res.count = 0

C12_AllOrNothingWithMarshalError ==
    \A res \in Results :
        res.called =>
            /\ AllOrNothing(res)
            /\ res.err # "" =>
                  /\ FailingComponents(dsc.Nested) # <<>>
                  /\ res.err = XmlMarshal(
                         FailingComponents(dsc.Nested)[1].Cscopecontent[1].Cp).err

\* a full conversion failed on a nested component after a root was converted
C12_Witness ==
    /\ resFull.called
    /\ resFull.err # ""
    /\ Len(dsc.Nested) = 2
    /\ FailingComponents(<<dsc.Nested[1]>>) = <<>>
    /\ FailingComponents(dsc.Nested[2].Nested) # <<>>

\* C12 as claimed: all or nothing, and on a failure the error describes the
\* component that failed to serialise.
C12_ErrorDescribesComponent ==
    \A res \in Results :
        res.called =>
            /\ AllOrNothing(res)
            /\ res.err # "" =>
                  /\ FailingComponents(dsc.Nested) # <<>>
                  /\ res.err \in NamesOf(FailingComponents(dsc.Nested)[1])

\* ---------------------------------------------------------------------------
\* Conversions running in concurrent goroutines.  A call allocates its counter
\* (var counter uint64), passes its address down the recursion, and reads it
\* once more when it returns; conc.cells is the memory the counters live in.
\* ---------------------------------------------------------------------------
MaxConcNodes == 2

Goroutines == {1, 2}

\* mutant of NewCounter: one package-level counter serves every call
NewCounterPackageLevel(cells) ==
    [cells |-> IF cells = <<>> THEN <<0>> ELSE cells, ptr |-> 1]

\* mutant of NewCounter: the new cell is not zeroed, it holds what the cell
\* allocated before it holds
NewCounterNotZeroed(cells) ==
    [cells |-> Append(cells, IF cells = <<>> THEN 0 ELSE cells[Len(cells)]),
     ptr |-> Len(cells) + 1]

\* var counter uint64: a fresh cell holding zero, and its address
NewCounter(cells) == [cells |-> Append(cells, 0), ptr |-> Len(cells) + 1]

\* what a finished conversion returns, count read from its counter
ReturnOf(fin, count) ==
    IF fin.status = "err"
    THEN [called |-> TRUE, nl |-> <<>>, count |-> 0, err |-> fin.err,
          heap |-> fin.heap]
    ELSE [called |-> TRUE, nl |-> <<fin.nl>>, count |-> count, err |-> "",
          heap |-> fin.heap]

\* a goroutine about to call NewNodeList (sparse = FALSE) or
\* NewSparseNodeList (sparse = TRUE) on d
IdleRun(d, sparse) ==
    [pc |-> "idle", input |-> d, sparse |-> sparse, ptr |-> 0, cv |-> <<>>,
     res |-> NoResult]

\* the templates the components of a concurrent conversion are built from
ConcTemplates == {TplSeries, TplFile, TplItem}

InitConcurrent ==
    /\ \E n1 \in 0..MaxConcNodes, n2 \in 0..MaxConcNodes :
         \E f1 \in Shapes(1, n1), f2 \in Shapes(1, n2) :
           \E t1 \in ConcTemplates, t2 \in ConcTemplates :
             \E s1 \in BOOLEAN, s2 \in BOOLEAN :
               conc = [cells |-> <<>>,
                       runs |-> <<IdleRun(Description(f1, [k \in 1..n1 |-> t1]), s1),
                                  IdleRun(Description(f2, [k \in 1..n2 |-> t2]), s2)>>]
    /\ dsc = NoDescription
    /\ resFull = NoResult
    /\ resSparse = NoResult
    /\ cdid = NoDid
    /\ hdrFull = NoHeader
    /\ hdrSparse = NoHeader
    /\ store = NoStore /\ server = NoServer

\* goroutine g enters newSparseNodeList
ConcCall(g) ==
    /\ conc.runs[g].pc = "idle"
    /\ LET alloc == NewCounter(conc.cells)
           run == conc.runs[g]
       IN  conc' = [cells |-> alloc.cells,
                    runs |-> [conc.runs EXCEPT ![g] =
                                [run EXCEPT !.pc = "running",
                                            !.ptr = alloc.ptr,
                                            !.cv = <<StartConversion(run.input,
                                                                     run.sparse)>>]]]
    /\ UNCHANGED <<convVars, headerVars, store, server>>

\* goroutine g makes one step of its conversion, on the counter it points to
ConcStep(g) ==
    /\ conc.runs[g].pc = "running"
    /\ conc.runs[g].cv[1].status = "running"
    /\ LET run == conc.runs[g]
           out == Step([run.cv[1] EXCEPT !.counter = conc.cells[run.ptr]])
       IN  conc' = [cells |-> [conc.cells EXCEPT ![run.ptr] = out.counter],
                    runs |-> [conc.runs EXCEPT ![g] = [run EXCEPT !.cv = <<out>>]]]
    /\ UNCHANGED <<convVars, headerVars, store, server>>

\* goroutine g returns from newSparseNodeList
ConcReturn(g) ==
    /\ conc.runs[g].pc = "running"
    /\ conc.runs[g].cv[1].status # "running"
    /\ LET run == conc.runs[g]
       IN  conc' = [conc EXCEPT !.runs[g] =
                       [run EXCEPT !.pc = "done",
                                   !.res = ReturnOf(run.cv[1], conc.cells[run.ptr])]]
    /\ UNCHANGED <<convVars, headerVars, store, server>>

NextConcurrent ==
    \E g \in Goroutines : ConcCall(g) \/ ConcStep(g) \/ ConcReturn(g)

SpecConcurrent == InitConcurrent /\ [][NextConcurrent]_vars

\* ---------------------------------------------------------------------------
\* C13: every call allocates its own order counter: conversions running
\* concurrently, on the same or on different inputs and however their steps
\* interleave, each return the Order values and the totalNodeCount they return
\* when run alone, and while one runs its counter holds the number of nodes it
\* has created itself.
\* ---------------------------------------------------------------------------
\* the nodes a running conversion has created so far
CreatedBy(cv) ==
    Len(Flatten(cv.nl.Nodes))
    + Len(Flatten([k \in 1..Len(cv.stack) |-> cv.stack[k].node]))

C13_ConcurrentRunsAsAlone ==
    \A g \in DOMAIN conc.runs :
        LET run == conc.runs[g]
            alone == newSparseNodeList(run.input, run.sparse)
        IN  /\ run.pc = "running" /\ run.cv[1].status = "running" =>
                  conc.cells[run.ptr] = CreatedBy(run.cv[1])
            /\ run.pc = "done" =>
                  /\ run.res.err = alone.err
                  /\ run.res.count = alone.count
                  /\ run.res.nl = alone.nl

\* both conversions are under way at once, each has created nodes, and their
\* counters differ
C13_Witness ==
    /\ DOMAIN conc.runs = Goroutines
    /\ \A g \in Goroutines :
          /\ conc.runs[g].pc = "running"
          /\ conc.runs[g].cv[1].status = "running"
          /\ CreatedBy(conc.runs[g].cv[1]) >= 1
    /\ \E g, h \in Goroutines :
          conc.cells[conc.runs[g].ptr] < conc.cells[conc.runs[h].ptr]

\* ---------------------------------------------------------------------------
\* Specification of the error returns: the conversion of small descriptions
\* and header resolution side by side
\* ---------------------------------------------------------------------------
InitErrors == InitSmall \/ InitHeader

NextErrors == Next \/ NextHeader

SpecErrors == InitErrors /\ [][NextErrors]_vars

\* ---------------------------------------------------------------------------
\* C14: the only error a conversion returns is the failure to serialise a
\* descriptive block in full mode: NewSparseNodeList returns no error on any
\* input, NewNodeList returns none on an input without descriptive blocks, and
\* NewHeader, NewNodeIDs, NewNodeDate and NewNodeID return none.
\* ---------------------------------------------------------------------------
\* some component of cs or of its subtrees carries a descriptive block
RECURSIVE HasBlock(_)
HasBlock(cs) ==
    \E i \in 1..Len(cs) :
        Len(cs[i].Cscopecontent) # 0 \/ HasBlock(cs[i].Nested)

\* the dates of an identification block, nested in titles or direct
DatesOf(did) ==
    {did.Cunitdate[j] : j \in 1..Len(did.Cunitdate)}
    \cup UNION {{did.Cunittitle[i].Cunitdate[j] :
                    j \in 1..Len(did.Cunittitle[i].Cunitdate)} :
                i \in 1..Len(did.Cunittitle)}

C14_OnlySerialisationErrors ==
    /\ resSparse.err = ""
    /\ ~HasBlock(dsc.Nested) => resFull.err = ""
    /\ resFull.err # "" => HasUnserialisableBlock(dsc.Nested)
    /\ hdrFull.err = "" /\ hdrSparse.err = ""
    /\ \A sparse \in BOOLEAN : NewNodeIDsErr(cdid, sparse) = ""
    /\ \A date \in DatesOf(cdid) : NewNodeDateErr(date) = ""
    /\ \A i \in 1..Len(cdid.Cunitid) : NewNodeIDErr(cdid.Cunitid[i]) = ""

\* one input converted in both modes: the full conversion failed, the sparse
\* one did not
C14_Witness ==
    /\ resFull.called /\ resFull.err # ""
    /\ resSparse.called /\ resSparse.err = ""
    /\ HasUnserialisableBlock(dsc.Nested)

\* ---------------------------------------------------------------------------
\* The namespace memoryStore, used by one caller at a time.  A NameSpace is
\* the record of its fields; a Go map is a function on the keys it holds.
\* ---------------------------------------------------------------------------
MaxStoreOps == 3

StoreIDs == {"u1", "u2"}
StorePrefixes == {"dc", "dcterms"}
StoreBases == {"http://purl.org/dc/elements/1.1/", "http://purl.org/dc/terms/"}

\* the NameSpace objects the caller passes to the store
NameSpaces ==
    {ns \in [UUID : StoreIDs,
             Prefix : StorePrefixes, PrefixAlt : SUBSET StorePrefixes,
             Base : StoreBases, BaseAlt : SUBSET StoreBases] :
        ns.Prefix \notin ns.PrefixAlt /\ ns.Base \notin ns.BaseAlt}

\* ns.GetID()
GetID(ns) == ns.UUID

\* ns.Prefixes(): the default prefix and the alternatives
Prefixes(ns) == {ns.Prefix} \cup ns.PrefixAlt

\* ns.BaseURIs(): the default base URI and the alternatives
BaseURIs(ns) == {ns.Base} \cup ns.BaseAlt

\* delete(m, k)
MapDelete(m, k) == [x \in DOMAIN m \ {k} |-> m[x]]

\* for _, k := range keys { delete(m, k) }
MapDeleteAll(m, keys) == [x \in DOMAIN m \ keys |-> m[x]]

\* for _, k := range keys { m[k] = v }
MapSetAll(m, keys, v) == [x \in DOMAIN m \cup keys |-> IF x \in keys THEN v ELSE m[x]]

EmptyMap == [x \in {} |-> <<>>]

newMemoryStore ==
    [prefix2base |-> EmptyMap, base2prefix |-> EmptyMap, namespaces |-> EmptyMap]

\* ms.Len()
memoryStoreLen(ms) == Cardinality(DOMAIN ms.namespaces)

\* ms.Delete(ns): the store it leaves (the error is always nil)
memoryStoreDelete(ms, ns) ==
    [prefix2base |-> MapDeleteAll(ms.prefix2base, Prefixes(ns)),
     base2prefix |-> MapDeleteAll(ms.base2prefix, BaseURIs(ns)),
     namespaces |-> MapDelete(ms.namespaces, GetID(ns))]

\* ms.Set(ns) for a pointer ns (<<>> is nil): the store it leaves and the error
memoryStoreSet(ms, ns) ==
    IF ns = <<>>
    THEN [ms |-> ms, err |-> "cannot store empty namespace"]
    ELSE LET del == memoryStoreDelete(ms, ns[1])
         IN  [ms |-> [prefix2base |-> MapSetAll(del.prefix2base, Prefixes(ns[1]), ns[1]),
                      base2prefix |-> MapSetAll(del.base2prefix, BaseURIs(ns[1]), ns[1]),
                      namespaces |-> MapSetAll(del.namespaces, {GetID(ns[1])}, ns[1])],
              err |-> ""]

\* ms.GetWithPrefix(prefix): (ns, err)
GetWithPrefix(ms, prefix) ==
    IF prefix \in DOMAIN ms.prefix2base
    THEN [ns |-> <<ms.prefix2base[prefix]>>, err |-> ""]
    ELSE [ns |-> <<>>, err |-> "namespace not found"]

\* ms.GetWithBase(base): (ns, err)
GetWithBase(ms, base) ==
    IF base \in DOMAIN ms.base2prefix
    THEN [ns |-> <<ms.base2prefix[base]>>, err |-> ""]
    ELSE [ns |-> <<>>, err |-> "namespace not found"]

\* the object stored under an ID, <<>> when there is none
StoredUnder(ms, id) ==
    IF id \in DOMAIN ms.namespaces THEN <<ms.namespaces[id]>> ELSE <<>>

\* no call made on the store yet
NoCall == [op |-> "none", ns |-> <<>>, replaced |-> <<>>, lenBefore |-> 0, err |-> ""]

InitStore ==
    /\ store = [used |-> TRUE, ms |-> newMemoryStore, ops |-> 0, last |-> NoCall]
    /\ dsc = NoDescription
    /\ resFull = NoResult
    /\ resSparse = NoResult
    /\ cdid = NoDid
    /\ hdrFull = NoHeader
    /\ hdrSparse = NoHeader
    /\ conc = NoConc /\ server = NoServer

\* the caller calls ms.Set(ns)
StoreSet(ns) ==
    /\ store.used
    /\ store.ops < MaxStoreOps
    /\ LET r == memoryStoreSet(store.ms, ns)
       IN  store' = [used |-> TRUE, ms |-> r.ms, ops |-> store.ops + 1,
                     last |-> [op |-> "Set", ns |-> ns,
                               replaced |-> IF ns = <<>> THEN <<>>
                                            ELSE StoredUnder(store.ms, GetID(ns[1])),
                               lenBefore |-> memoryStoreLen(store.ms),
                               err |-> r.err]]
    /\ UNCHANGED <<convVars, headerVars, conc, server>>

\* the caller calls ms.Delete(ns)
StoreDelete(ns) ==
    /\ store.used
    /\ store.ops < MaxStoreOps
    /\ store' = [used |-> TRUE, ms |-> memoryStoreDelete(store.ms, ns),
                 ops |-> store.ops + 1,
                 last |-> [op |-> "Delete", ns |-> <<ns>>,
                           replaced |-> StoredUnder(store.ms, GetID(ns)),
                           lenBefore |-> memoryStoreLen(store.ms),
                           err |-> ""]]
    /\ UNCHANGED <<convVars, headerVars, conc, server>>

NextStore ==
    \/ \E ns \in {<<>>} \cup {<<n>> : n \in NameSpaces} : StoreSet(ns)
    \/ \E ns \in NameSpaces : StoreDelete(ns)

SpecStore == InitStore /\ [][NextStore]_vars

\* ---------------------------------------------------------------------------
\* C15: Set overwrites.  After Set(ns) has returned on a store that held a
\* namespace with the ID of ns, Len is what it was, the store holds ns under
\* that ID, every prefix and every base URI of ns looks up ns, and no prefix
\* and no base URI looks up the replaced object any more.
\* ---------------------------------------------------------------------------
C15_SetOverwrites ==
    (store.used /\ store.last.op = "Set" /\ store.last.err = ""
                /\ store.last.replaced # <<>>) =>
        LET ns == store.last.ns[1]
            old == store.last.replaced[1]
        IN  /\ memoryStoreLen(store.ms) = store.last.lenBefore
            /\ StoredUnder(store.ms, GetID(ns)) = <<ns>>
            /\ \A p \in Prefixes(ns) : GetWithPrefix(store.ms, p).ns = <<ns>>
            /\ \A b \in BaseURIs(ns) : GetWithBase(store.ms, b).ns = <<ns>>
            /\ old # ns =>
                  /\ \A p \in StorePrefixes : GetWithPrefix(store.ms, p).ns # <<old>>
                  /\ \A b \in StoreBases : GetWithBase(store.ms, b).ns # <<old>>

\* ---------------------------------------------------------------------------
\* The ikuzo server in listenAndServe: the goroutine running the web server,
\* the two channels, signals from the operating system and the background
\* workers of the pool.
\*   server.pc    : position of the caller of listenAndServe
\*   server.gpc   : position of the goroutine around http.Server.ListenAndServe
\*   server.http  : state of the http.Server
\*   server.ctxDone : the context of the workers is done
\*   server.stopped : what server.Shutdown returned, once it has
\*   server.log   : the steps of shutdown taken so far, each with what it found
\* ---------------------------------------------------------------------------
MaxWorkers == 2
MaxTestSignals == 2

\* allowedErrors := 10
allowedErrors == 10

\* make(chan os.Signal, 1)
signalChanCap == 1

Signals == {"SIGINT", "SIGTERM"}
TestErrors == {"test error"}

\* the position after a step of shutdown, mutated: Wait is left out
ShutdownNextPcSkipsWait(pc) ==
    CASE pc = "cancel" -> "stop"
      [] pc = "stop" -> "return"
      [] pc = "wait" -> "return"

\* the position after a step of shutdown: cancelFunc, server.Shutdown,
\* wg.Wait, return nil
ShutdownNextPc(pc) ==
    CASE pc = "cancel" -> "stop"
      [] pc = "stop" -> "wait"
      [] pc = "wait" -> "return"

\* workers.wg.Wait() does not block
WaitReturns(workers) == \A w \in 1..Len(workers) : workers[w] = "done"

\* the workers still running
Running(workers) == {w \in 1..Len(workers) : workers[w] = "running"}

NewServerState(testSignals, workers) ==
    [pc |-> "start", gpc |-> "none", http |-> "new",
     testSignals |-> testSignals, errChan |-> <<>>, signalChan |-> <<>>,
     ctxDone |-> FALSE, workers |-> workers, log |-> <<>>,
     stopped |-> <<>>, path |-> "none", ret |-> <<>>]

InitServer ==
    /\ \E ts \in SeqsUpTo(Signals \cup TestErrors, MaxTestSignals) :
         \E n \in 0..MaxWorkers :
           server = NewServerState(ts, [w \in 1..n |-> "running"])
    /\ dsc = NoDescription
    /\ resFull = NoResult
    /\ resSparse = NoResult
    /\ cdid = NoDid
    /\ hdrFull = NoHeader
    /\ hdrSparse = NoHeader
    /\ conc = NoConc /\ store = NoStore

\* listenAndServe up to signal.Notify: the channels are made and the web
\* server is started in its goroutine
SrvStart ==
    /\ server.pc = "start"
    /\ server' = [server EXCEPT !.pc = "inject", !.gpc = "serving",
                                !.http = "listening"]
    /\ UNCHANGED <<convVars, headerVars, conc, store>>

\* the loop over testSignals: a blocking send on the channel of the value's type
SrvInject ==
    /\ server.pc = "inject"
    /\ IF server.testSignals = <<>>
       THEN server' = [server EXCEPT !.pc = "select"]
       ELSE LET v == Head(server.testSignals)
            IN  IF v \in Signals
                THEN /\ Len(server.signalChan) < signalChanCap
                     /\ server' = [server EXCEPT !.signalChan = Append(@, v),
                                                 !.testSignals = Tail(@)]
                ELSE /\ Len(server.errChan) < allowedErrors
                     /\ server' = [server EXCEPT !.errChan = Append(@, v),
                                                 !.testSignals = Tail(@)]
    /\ UNCHANGED <<convVars, headerVars, conc, store>>

\* case err := <-errChan
SrvSelectErr ==
    /\ server.pc = "select"
    /\ server.errChan # <<>>
    /\ LET err == Head(server.errChan)
       IN  IF err # ""
           THEN server' = [server EXCEPT !.errChan = Tail(@), !.pc = "returned",
                                         !.path = "error", !.ret = <<err>>]
           ELSE server' = [server EXCEPT !.errChan = Tail(@)]
    /\ UNCHANGED <<convVars, headerVars, conc, store>>

\* case sig := <-signalChan: shutdown is entered
SrvSelectSignal ==
    /\ server.pc = "select"
    /\ server.signalChan # <<>>
    /\ server' = [server EXCEPT !.signalChan = Tail(@), !.pc = "cancel",
                                !.path = "signal"]
    /\ UNCHANGED <<convVars, headerVars, conc, store>>

\* case <-s.workers.ctx.Done()
SrvSelectCtx ==
    /\ server.pc = "select"
    /\ server.ctxDone
    /\ server' = [server EXCEPT !.pc = "returned", !.path = "ctx",
                                !.ret = <<"context canceled">>]
    /\ UNCHANGED <<convVars, headerVars, conc, store>>

\* shutdown: s.cancelFunc()
SrvCancel ==
    /\ server.pc = "cancel"
    /\ server' = [server EXCEPT !.ctxDone = TRUE,
                                !.log = Append(@, [step |-> "cancel",
                                                   ctxDone |-> server.ctxDone,
                                                   http |-> server.http,
                                                   running |-> Running(server.workers)]),
                                !.pc = ShutdownNextPc("cancel")]
    /\ UNCHANGED <<convVars, headerVars, conc, store>>

\* shutdown: server.Shutdown(ctx) under the graceful timeout; it returns nil
\* or the context's error, and the result is dropped
SrvStop ==
    /\ server.pc = "stop"
    /\ \E result \in {"", "context deadline exceeded"} :
         server' = [server EXCEPT !.http = "closed",
                                  !.stopped = <<result>>,
                                  !.log = Append(@, [step |-> "stop",
                                                     ctxDone |-> server.ctxDone,
                                                     http |-> server.http,
                                                     running |-> Running(server.workers)]),
                                  !.pc = ShutdownNextPc("stop")]
    /\ UNCHANGED <<convVars, headerVars, conc, store>>

\* shutdown: s.workers.wg.Wait()
SrvWait ==
    /\ server.pc = "wait"
    /\ WaitReturns(server.workers)
    /\ server' = [server EXCEPT !.log = Append(@, [step |-> "wait",
                                                   ctxDone |-> server.ctxDone,
                                                   http |-> server.http,
                                                   running |-> Running(server.workers)]),
                                !.pc = ShutdownNextPc("wait")]
    /\ UNCHANGED <<convVars, headerVars, conc, store>>

\* shutdown: return nil
SrvReturn ==
    /\ server.pc = "return"
    /\ server' = [server EXCEPT !.pc = "returned", !.ret = <<"">>]
    /\ UNCHANGED <<convVars, headerVars, conc, store>>

\* the goroutine: server.ListenAndServe() returns, after Shutdown or because
\* listening failed, and its error is sent on errChan
SrvGoroutine ==
    /\ server.gpc = "serving"
    /\ Len(server.errChan) < allowedErrors
    /\ \E err \in IF server.http = "closed" THEN {"http: Server closed"}
                  ELSE {"listen: address already in use"} :
         server' = [server EXCEPT !.gpc = "sent", !.errChan = Append(@, err),
                                  !.http = IF @ = "closed" THEN @ ELSE "failed"]
    /\ UNCHANGED <<convVars, headerVars, conc, store>>

\* the operating system delivers a signal: signal.Notify sends without
\* blocking and drops the signal when the channel is full
OSSignal(sig) ==
    /\ server.pc \notin {"none", "start"}
    /\ Len(server.signalChan) < signalChanCap
    /\ server' = [server EXCEPT !.signalChan = Append(@, sig)]
    /\ UNCHANGED <<convVars, headerVars, conc, store>>

\* a background worker finishes, on its own or because its context is done
WorkerFinishes(w) ==
    /\ server.pc # "none"
    /\ server.workers[w] = "running"
    /\ server' = [server EXCEPT !.workers[w] = "done"]
    /\ UNCHANGED <<convVars, headerVars, conc, store>>

\* a background worker fails: the pool cancels the context of the workers
WorkerFails(w) ==
    /\ server.pc # "none"
    /\ server.workers[w] = "running"
    /\ server' = [server EXCEPT !.workers[w] = "done", !.ctxDone = TRUE]
    /\ UNCHANGED <<convVars, headerVars, conc, store>>

NextServer ==
    \/ SrvStart \/ SrvInject
    \/ SrvSelectErr \/ SrvSelectSignal \/ SrvSelectCtx
    \/ SrvCancel \/ SrvStop \/ SrvWait \/ SrvReturn
    \/ SrvGoroutine
    \/ \E sig \in Signals : OSSignal(sig)
    \/ \E w \in 1..Len(server.workers) : WorkerFinishes(w) \/ WorkerFails(w)

SpecServer == InitServer /\ [][NextServer]_vars

\* ---------------------------------------------------------------------------
\* C16: on the signal path ListenAndServe first cancels the context of the
\* background workers, then shuts the HTTP server down, then waits until every
\* background worker has finished, and only then returns nil; it does not
\* return from the signal path while a background worker is running.
\* ---------------------------------------------------------------------------
\* the names of the steps of shutdown taken so far
StepsTaken == [k \in 1..Len(server.log) |-> server.log[k].step]

C16_GracefulShutdown ==
    server.path = "signal" =>
        /\ \E n \in 0..3 : StepsTaken = SubSeq(<<"cancel", "stop", "wait">>, 1, n)
        /\ \A k \in 1..Len(server.log) :
              /\ server.log[k].step = "stop" => server.log[k].ctxDone
              /\ server.log[k].step = "wait" =>
                    /\ server.log[k].ctxDone
                    /\ server.log[k].http = "closed"
                    /\ server.log[k].running = {}
        /\ server.pc = "returned" =>
              /\ StepsTaken = <<"cancel", "stop", "wait">>
              /\ server.ret = <<"">>
              /\ Running(server.workers) = {}

\* the server returned from the signal path, and workers were running when
\* the signal was taken
C16_Witness ==
    /\ server.pc = "returned"
    /\ server.path = "signal"
    /\ Len(server.log) = 3
    /\ server.log[1].running # {}
    /\ ~server.log[1].ctxDone

\* ---------------------------------------------------------------------------
\* C17: NewHeader keeps the order of the titles and never gives the plain text
\* of a dated title.  In full mode Label is the plain texts of the titles
\* without nested dates, in source order; in sparse mode Label is, title by
\* title in source order, the labels of the title's nested dates when it has
\* any and its plain text when it has none.
\* ---------------------------------------------------------------------------
RECURSIVE UndatedTexts(_)
UndatedTexts(titles) ==
    IF titles = <<>> THEN <<>>
    ELSE (IF Len(titles[1].Cunitdate) = 0 THEN <<titles[1].Title>> ELSE <<>>)
         \o UndatedTexts(Tail(titles))

RECURSIVE DateLabelsOrTexts(_)
DateLabelsOrTexts(titles) ==
    IF titles = <<>> THEN <<>>
    ELSE (IF Len(titles[1].Cunitdate) = 0 THEN <<titles[1].Title>>
          ELSE [j \in 1..Len(titles[1].Cunitdate) |-> titles[1].Cunitdate[j].Date])
         \o DateLabelsOrTexts(Tail(titles))

C17_LabelKeepsTitleOrder ==
    /\ hdrFull.called => hdrFull.header[1].Label = UndatedTexts(cdid.Cunittitle)
    /\ hdrSparse.called =>
          hdrSparse.header[1].Label = DateLabelsOrTexts(cdid.Cunittitle)

\* both modes resolved a block whose first title has two dates and whose
\* second title has none
C17_Witness ==
    /\ hdrFull.called /\ hdrSparse.called
    /\ Len(cdid.Cunittitle) = 2
    /\ Len(cdid.Cunittitle[1].Cunitdate) = 2
    /\ cdid.Cunittitle[1].Cunitdate[1] # cdid.Cunittitle[1].Cunitdate[2]
    /\ Len(cdid.Cunittitle[2].Cunitdate) = 0
    /\ cdid.Cunittitle[1].Title # cdid.Cunittitle[2].Title

\* ---------------------------------------------------------------------------
\* C18: in full mode the header lists one identifier per raw identifier of the
\* block, in source order and whatever its type, each the raw identifier's
\* id, typeID, type and audience as they are.
\* ---------------------------------------------------------------------------
C18_FullModeListsEveryIdentifier ==
    hdrFull.called =>
        /\ Len(hdrFull.header[1].ID) = Len(cdid.Cunitid)
        /\ \A k \in 1..Len(cdid.Cunitid) :
              /\ hdrFull.header[1].ID[k].ID = cdid.Cunitid[k].ID
              /\ hdrFull.header[1].ID[k].TypeID = cdid.Cunitid[k].Attridentifier
              /\ hdrFull.header[1].ID[k].Type = cdid.Cunitid[k].Attrtype
              /\ hdrFull.header[1].ID[k].Audience = cdid.Cunitid[k].Attraudience

\* a block whose identifiers carry every attribute, an unrecognised type
\* before a recognised one, resolved in full mode
C18_Witness ==
    /\ hdrFull.called
    /\ Len(cdid.Cunitid) >= 2
    /\ ~IsInventoryType(cdid.Cunitid[1].Attrtype)
    /\ IsInventoryType(cdid.Cunitid[2].Attrtype)
    /\ cdid.Cunitid[1].Attraudience # ""
    /\ cdid.Cunitid[1].Attridentifier # ""

\* ---------------------------------------------------------------------------
\* C19: in full mode Date is the dates nested in titles, title by title and in
\* their order within a title, followed by the direct dates of the block in
\* source order; in sparse mode the direct dates add nothing to the header,
\* neither a date nor a label.
\* ---------------------------------------------------------------------------
RECURSIVE TitleDates(_)
TitleDates(titles) ==
    IF titles = <<>> THEN <<>>
    ELSE titles[1].Cunitdate \o TitleDates(Tail(titles))

\* the structured date of a raw date
StructuredDate(d) ==
    [Calendar |-> d.Attrcalendar, Era |-> d.Attrera, Normal |-> d.Attrnormal,
     Label |-> d.Date]

C19_DatesTitleNestedThenDirect ==
    /\ hdrFull.called =>
          LET raw == TitleDates(cdid.Cunittitle) \o cdid.Cunitdate
          IN  hdrFull.header[1].Date = [k \in 1..Len(raw) |-> StructuredDate(raw[k])]
    /\ hdrSparse.called =>
          /\ hdrSparse.header[1].Date = <<>>
          /\ hdrSparse = NewHeaderCall([cdid EXCEPT !.Cunitdate = <<>>], TRUE)

\* a block with a date nested in a title and two different direct dates,
\* resolved in both modes
C19_Witness ==
    /\ hdrFull.called /\ hdrSparse.called
    /\ TitleDates(cdid.Cunittitle) # <<>>
    /\ Len(cdid.Cunitdate) = 2
    /\ cdid.Cunitdate[1] # cdid.Cunitdate[2]

\* ---------------------------------------------------------------------------
\* Specification of the conversion of descriptions that vary in their type
\* attribute and head labels as well as in their components
\* ---------------------------------------------------------------------------
MaxMirrorNodes == 4
MaxHeads == 2

DescriptionTypes == {"combined", "inventory"}
HeadTexts == {"Inventaris", "Stukken"}

InitMirror ==
    /\ \E n \in 0..MaxMirrorNodes :
         \E f \in Shapes(1, n) :
           \E tpls \in [1..n -> {TplSeries, TplFile}] :
             \E type \in DescriptionTypes :
               \E heads \in SeqsUpTo(HeadTexts, MaxHeads) :
                 dsc = [Attrtype |-> type,
                        Chead |-> [k \in 1..Len(heads) |-> [Head |-> heads[k]]],
                        Nested |-> Fill(f, 1, tpls, 1)]
    /\ resFull = NoResult
    /\ resSparse = NoResult
    /\ cdid = NoDid
    /\ hdrFull = NoHeader
    /\ hdrSparse = NoHeader
    /\ conc = NoConc /\ store = NoStore /\ server = NoServer

SpecMirror == InitMirror /\ [][Next]_vars

\* ---------------------------------------------------------------------------
\* C20: the output tree mirrors the input tree.  NodeList.Type is the type
\* attribute of the description, NodeList.Label its head labels in source
\* order, NodeList.Nodes holds one node per root component in source order,
\* and the child list of every node holds one node per nested component of
\* its component, in source order.
\* ---------------------------------------------------------------------------
\* nodes holds, position by position, the nodes of the components cs, and so
\* do the child lists below
RECURSIVE Mirrors(_, _)
Mirrors(nodes, cs) ==
    /\ Len(nodes) = Len(cs)
    /\ \A i \in 1..Len(cs) :
          /\ nodes[i].Type = cs[i].Attrlevel
          /\ nodes[i].SubType = cs[i].Attrotherlevel
          /\ nodes[i].Header.Label = DateLabelsOrTexts(cs[i].Cdid.Cunittitle)
             \/ nodes[i].Header.Label = UndatedTexts(cs[i].Cdid.Cunittitle)
          /\ Mirrors(nodes[i].Nodes, cs[i].Nested)

C20_OutputMirrorsInput ==
    \A res \in Results :
        Succeeded(res) =>
            /\ res.nl[1].Type = dsc.Attrtype
            /\ Len(res.nl[1].Label) = Len(dsc.Chead)
            /\ \A k \in 1..Len(dsc.Chead) : res.nl[1].Label[k] = dsc.Chead[k].Head
            /\ Mirrors(res.nl[1].Nodes, dsc.Nested)

\* two different head labels, two different roots, and two different
\* components nested in the first root
C20_Witness ==
    /\ Succeeded(resFull) /\ Succeeded(resSparse)
    /\ Len(dsc.Chead) = 2 /\ dsc.Chead[1] # dsc.Chead[2]
    /\ Len(dsc.Nested) = 2
    /\ dsc.Nested[1].Attrlevel # dsc.Nested[2].Attrlevel
    /\ Len(dsc.Nested[1].Nested) = 2
    /\ dsc.Nested[1].Nested[1].Attrlevel # dsc.Nested[1].Nested[2].Attrlevel

\* ---------------------------------------------------------------------------
\* C21: the HTML of a node is non-empty only in full mode and only when the
\* node's own component carries a scope-content block: a component without a
\* block gives empty HTML in full mode too, and the block of one component
\* shows in the HTML of no other node.
\* ---------------------------------------------------------------------------
\* the components of a list of input components and of their subtrees, in
\* document order
RECURSIVE Components(_)
Components(cs) ==
    IF cs = <<>> THEN <<>>
    ELSE <<cs[1]>> \o Components(cs[1].Nested) \o Components(Tail(cs))

\* the serialised paragraphs of a component's own block, none without a block
OwnMarkup(c) ==
    IF Len(c.Cscopecontent) = 0 THEN <<>>
    ELSE [k \in 1..Len(c.Cscopecontent[1].Cp.P) |->
             <<"<p>", c.Cscopecontent[1].Cp.P[k], "</p>">>]

C21_MarkupOnlyFromOwnBlock ==
    /\ Succeeded(resSparse) =>
          \A k \in 1..Len(ResultNodes(resSparse)) :
              ResultNodes(resSparse)[k].HTML = <<>>
    /\ Succeeded(resFull) =>
          /\ Len(ResultNodes(resFull)) = Len(Components(dsc.Nested))
          /\ \A k \in 1..Len(ResultNodes(resFull)) :
                LET node == ResultNodes(resFull)[k]
                    c == Components(dsc.Nested)[k]
                IN  /\ node.HTML # <<>> => Len(c.Cscopecontent) # 0
                    /\ node.HTML = OwnMarkup(c)

\* a full result in which a component with a block has a child without one
\* that in turn has a child with one, next to a sibling without a block
C21_Witness ==
    /\ Succeeded(resFull) /\ Succeeded(resSparse)
    /\ Len(dsc.Nested) = 2
    /\ Len(dsc.Nested[1].Cscopecontent) # 0
    /\ Len(dsc.Nested[2].Cscopecontent) = 0
    /\ Len(dsc.Nested[1].Nested) >= 1
    /\ Len(dsc.Nested[1].Nested[1].Cscopecontent) = 0
    /\ Len(dsc.Nested[1].Nested[1].Nested) >= 1
    /\ Len(dsc.Nested[1].Nested[1].Nested[1].Cscopecontent) # 0

\* ---------------------------------------------------------------------------
\* C22: the parent chain grows by exactly one entry per descent level: a node
\* at nesting level k (1 for a root) has k - 1 entries in ParentIDs and Depth
\* k, also below ancestors that resolved no inventory number: such an ancestor
\* adds an entry all the same.
\* ---------------------------------------------------------------------------
\* the nodes of a list at nesting level k, and all below them, have k - 1
\* parent entries and depth k
RECURSIVE LevelsAre(_, _, _)
LevelsAre(res, nodes, k) ==
    \A i \in 1..Len(nodes) :
        /\ Len(ParentIDsOf(res, nodes[i])) = k - 1
        /\ nodes[i].Depth = k
        /\ LevelsAre(res, nodes[i].Nodes, k + 1)

C22_ChainGrowsOnePerLevel ==
    \A res \in Results : Succeeded(res) => LevelsAre(res, res.nl[1].Nodes, 1)

\* a node at level 4 below a level 2 and a level 3 ancestor without an
\* inventory number
C22_Witness ==
    /\ Succeeded(resSparse)
    /\ \E a \in 1..Len(resSparse.nl[1].Nodes) :
         LET l1 == resSparse.nl[1].Nodes[a]
         IN  /\ l1.Header.InventoryNumber # ""
             /\ \E b \in 1..Len(l1.Nodes) :
                  /\ l1.Nodes[b].Header.InventoryNumber = ""
                  /\ \E c \in 1..Len(l1.Nodes[b].Nodes) :
                       /\ l1.Nodes[b].Nodes[c].Header.InventoryNumber = ""
                       /\ Len(l1.Nodes[b].Nodes[c].Nodes) >= 1

\* ---------------------------------------------------------------------------
\* Specification of one caller that converts again and again: each call is
\* NewNodeList or NewSparseNodeList on one of two descriptions, run to its
\* end on a counter it allocates; conc.runs is the record of the calls made.
\* ---------------------------------------------------------------------------
MaxCalls == 3

InitRepeat ==
    /\ \E n1 \in 0..MaxConcNodes, n2 \in 0..MaxConcNodes :
         \E f1 \in Shapes(1, n1), f2 \in Shapes(1, n2) :
           \E t1 \in ConcTemplates, t2 \in ConcTemplates :
             \E s1 \in BOOLEAN, s2 \in BOOLEAN :
               conc = [cells |-> <<>>,
                       runs |-> <<>>,
                       inputs |-> <<IdleRun(Description(f1, [k \in 1..n1 |-> t1]), s1),
                                    IdleRun(Description(f2, [k \in 1..n2 |-> t2]), s2)>>]
    /\ dsc = NoDescription
    /\ resFull = NoResult
    /\ resSparse = NoResult
    /\ cdid = NoDid
    /\ hdrFull = NoHeader
    /\ hdrSparse = NoHeader
    /\ store = NoStore /\ server = NoServer

\* the caller makes the call conc.inputs[k] stands for, from entry to return
RepeatCall(k) ==
    /\ Len(conc.runs) < MaxCalls
    /\ LET in == conc.inputs[k]
           alloc == NewCounter(conc.cells)
           fin == Run([StartConversion(in.input, in.sparse)
                          EXCEPT !.counter = alloc.cells[alloc.ptr]])
           cells == [alloc.cells EXCEPT ![alloc.ptr] = fin.counter]
       IN  conc' = [conc EXCEPT
                       !.cells = cells,
                       !.runs = Append(@, [in EXCEPT !.pc = "done",
                                                     !.ptr = alloc.ptr,
                                                     !.cv = <<fin>>,
                                                     !.res = ReturnOf(fin, cells[alloc.ptr])])]
    /\ UNCHANGED <<convVars, headerVars, store, server>>

NextRepeat == \E k \in 1..Len(conc.inputs) : RepeatCall(k)

SpecRepeat == InitRepeat /\ [][NextRepeat]_vars

\* ---------------------------------------------------------------------------
\* C23: the engine keeps no state between calls: the same conversion (same
\* input, same mode) returns equal results whenever it is run, directly after
\* itself or after other conversions, and the first root node of every run
\* has Order 1.
\* ---------------------------------------------------------------------------
C23_NoStateBetweenCalls ==
    /\ \A i, j \in 1..Len(conc.runs) :
          (conc.runs[i].input = conc.runs[j].input
              /\ conc.runs[i].sparse = conc.runs[j].sparse) =>
                 /\ conc.runs[i].res.nl = conc.runs[j].res.nl
                 /\ conc.runs[i].res.count = conc.runs[j].res.count
                 /\ conc.runs[i].res.err = conc.runs[j].res.err
    /\ \A i \in 1..Len(conc.runs) :
          (Succeeded(conc.runs[i].res) /\ conc.runs[i].res.nl[1].Nodes # <<>>) =>
              conc.runs[i].res.nl[1].Nodes[1].Order = 1

\* one conversion of two components was run, then another conversion, then
\* the first one again
C23_Witness ==
    /\ Len(conc.runs) >= 3
    /\ conc.runs[1].input = conc.runs[3].input
    /\ conc.runs[1].sparse = conc.runs[3].sparse
    /\ conc.runs[2].input # conc.runs[1].input
    /\ Succeeded(conc.runs[1].res) /\ conc.runs[1].res.count >= 2
    /\ Succeeded(conc.runs[2].res) /\ conc.runs[2].res.count >= 1

\* ---------------------------------------------------------------------------
\* Specification of one conversion taken step by step, with the record of the
\* components it has called NewNode on.  A component is named by its path:
\* the index of its root in dsc.Nested followed by the indices in the Nested
\* lists on the way down.  The conversion calls nothing that can block, so
\* its next step is always taken in the end (weak fairness).
\* ---------------------------------------------------------------------------
MaxStepNodes == 4

\* the templates the components of a stepped conversion are built from
StepTemplates == {TplSeries, TplItem}

\* the path of the innermost active NewNode call
ActivePath(cv) ==
    IF cv.stack = <<>> THEN <<>>
    ELSE <<cv.ri>> \o [k \in 1..(Len(cv.stack) - 1) |-> cv.stack[k].i]

\* the path of the component the next step calls NewNode on, in a one-element
\* sequence; <<>> when the next step is a return
EntersAt(cv) ==
    IF cv.stack = <<>>
    THEN IF cv.ri <= Len(cv.roots) THEN <<<<cv.ri>>>> ELSE <<>>
    ELSE LET top == cv.stack[Len(cv.stack)]
         IN  IF top.i <= Len(top.c.Nested)
             THEN <<ActivePath(cv) \o <<top.i>>>>
             ELSE <<>>

InitSteps ==
    /\ \E n \in 0..MaxStepNodes :
         \E f \in Shapes(1, n) :
           \E tpls \in [1..n -> StepTemplates] :
             \E sparse \in BOOLEAN :
               conc = [cells |-> <<>>,
                       runs |-> <<IdleRun(Description(f, tpls), sparse)>>,
                       visited |-> <<>>]
    /\ dsc = NoDescription
    /\ resFull = NoResult
    /\ resSparse = NoResult
    /\ cdid = NoDid
    /\ hdrFull = NoHeader
    /\ hdrSparse = NoHeader
    /\ store = NoStore /\ server = NoServer

\* newSparseNodeList is entered
StepsCall ==
    /\ conc.runs[1].pc = "idle"
    /\ LET alloc == NewCounter(conc.cells)
           run == conc.runs[1]
       IN  conc' = [conc EXCEPT
                       !.cells = alloc.cells,
                       !.runs[1] = [run EXCEPT !.pc = "running",
                                               !.ptr = alloc.ptr,
                                               !.cv = <<StartConversion(run.input,
                                                                        run.sparse)>>]]
    /\ UNCHANGED <<convVars, headerVars, store, server>>

\* one step of the conversion
StepsStep ==
    /\ conc.runs[1].pc = "running"
    /\ conc.runs[1].cv[1].status = "running"
    /\ LET run == conc.runs[1]
           cv == [run.cv[1] EXCEPT !.counter = conc.cells[run.ptr]]
           out == Step(cv)
       IN  conc' = [conc EXCEPT
                       !.cells[run.ptr] = out.counter,
                       !.runs[1].cv = <<out>>,
                       !.visited = @ \o EntersAt(cv)]
    /\ UNCHANGED <<convVars, headerVars, store, server>>

\* newSparseNodeList returns
StepsReturn ==
    /\ conc.runs[1].pc = "running"
    /\ conc.runs[1].cv[1].status # "running"
    /\ LET run == conc.runs[1]
       IN  conc' = [conc EXCEPT
                       !.runs[1] = [run EXCEPT
                                       !.pc = "done",
                                       !.res = ReturnOf(run.cv[1], conc.cells[run.ptr])]]
    /\ UNCHANGED <<convVars, headerVars, store, server>>

NextSteps == StepsCall \/ StepsStep \/ StepsReturn

SpecSteps == InitSteps /\ [][NextSteps]_vars /\ WF_vars(NextSteps)

\* ---------------------------------------------------------------------------
\* C24: on every finite input the conversion terminates, in success or in
\* failure, having called NewNode on each component at most once, and on each
\* exactly once when it succeeds; the order counter advances by one with every
\* component visited and never otherwise.
\* ---------------------------------------------------------------------------
\* path names a component of cs
RECURSIVE IsComponentPath(_, _)
IsComponentPath(cs, path) ==
    /\ path # <<>>
    /\ path[1] \in 1..Len(cs)
    /\ Len(path) = 1 \/ IsComponentPath(cs[path[1]].Nested, Tail(path))

VisitsAreSound ==
    /\ \A a, b \in 1..Len(conc.visited) : a # b => conc.visited[a] # conc.visited[b]
    /\ \A a \in 1..Len(conc.visited) :
          IsComponentPath(conc.runs[1].input.Nested, conc.visited[a])
    /\ conc.runs[1].pc # "idle" => conc.cells[conc.runs[1].ptr] = Len(conc.visited)
    /\ (conc.runs[1].pc = "done" /\ conc.runs[1].res.err = "") =>
          /\ Len(conc.visited) = CountComponents(conc.runs[1].input.Nested)
          /\ conc.runs[1].res.count = Len(conc.visited)

C24_TerminatesVisitingOnce ==
    /\ []VisitsAreSound
    /\ <>(conc.runs[1].pc = "done")

\* a conversion failed after visiting some components and before visiting
\* others
C24_Witness ==
    /\ conc.runs[1].pc = "done"
    /\ conc.runs[1].res.err # ""
    /\ Len(conc.visited) >= 2
    /\ Len(conc.visited) < CountComponents(conc.runs[1].input.Nested)

\* ---------------------------------------------------------------------------
\* Specification of one conversion taken step by step on inputs deep enough
\* for append to find spare capacity in the parent chain
\* ---------------------------------------------------------------------------
MaxAliasNodes == 6

InitAlias ==
    /\ \E n \in 0..MaxAliasNodes :
         \E f \in Shapes(1, n) :
           \E tpls \in [1..n -> {TplSeries, TplFile}] :
             \E sparse \in BOOLEAN :
               conc = [cells |-> <<>>,
                       runs |-> <<IdleRun(Description(f, tpls), sparse)>>,
                       visited |-> <<>>]
    /\ dsc = NoDescription
    /\ resFull = NoResult
    /\ resSparse = NoResult
    /\ cdid = NoDid
    /\ hdrFull = NoHeader
    /\ hdrSparse = NoHeader
    /\ store = NoStore /\ server = NoServer

SpecAlias == InitAlias /\ [][NextSteps]_vars

\* ---------------------------------------------------------------------------
\* C25: once a node has been created, the contents of its ParentIDs are not
\* changed by the later conversion of any other component: no step of the
\* conversion changes what the ParentIDs of an already built node read.
\* ---------------------------------------------------------------------------
\* the nodes a running conversion has built so far
BuiltNodes(cv) ==
    Flatten(cv.nl.Nodes) \o Flatten([k \in 1..Len(cv.stack) |-> cv.stack[k].node])

C25_ParentIDsNeverChange ==
    [][(conc.runs[1].pc = "running" /\ conc'.runs[1].pc = "running") =>
          \A k \in 1..Len(BuiltNodes(conc.runs[1].cv[1])) :
              Deref(conc'.runs[1].cv[1].heap,
                    BuiltNodes(conc.runs[1].cv[1])[k].ParentIDs)
                = Deref(conc.runs[1].cv[1].heap,
                        BuiltNodes(conc.runs[1].cv[1])[k].ParentIDs)]_vars

\* ---------------------------------------------------------------------------
\* C26: in a successful conversion the Order values of every node's subtree
\* (the node included) are exactly k .. k+s-1, where k is the node's Order and
\* s the number of nodes of the subtree, and the next sibling of the node, if
\* there is one, has Order k+s.
\* ---------------------------------------------------------------------------
\* the number of nodes of the subtree of a node, the node included
SubtreeSize(node) == Len(Flatten(<<node>>))

RECURSIVE SubtreesContiguous(_)
SubtreesContiguous(nodes) ==
    /\ \A i \in 1..Len(nodes) :
          /\ Orders(<<nodes[i]>>)
               = nodes[i].Order..(nodes[i].Order + SubtreeSize(nodes[i]) - 1)
          /\ SubtreesContiguous(nodes[i].Nodes)
    /\ \A i \in 1..(Len(nodes) - 1) :
          nodes[i + 1].Order = nodes[i].Order + SubtreeSize(nodes[i])

C26_SubtreesAreContiguous ==
    \A res \in Results : Succeeded(res) => SubtreesContiguous(res.nl[1].Nodes)

\* a root with a subtree of three nodes on two levels, followed by a second
\* root, and a nested node with a subtree of its own followed by a sibling
C26_Witness ==
    /\ Succeeded(resFull)
    /\ Len(resFull.nl[1].Nodes) = 2
    /\ Len(resFull.nl[1].Nodes[1].Nodes) = 2
    /\ Len(resFull.nl[1].Nodes[1].Nodes[1].Nodes) = 1
    /\ resFull.nl[1].Nodes[1].Nodes[2].Order = 4
    /\ resFull.nl[1].Nodes[2].Order = 5

\* ---------------------------------------------------------------------------
\* The memoryStore used by two goroutines: one calls Set, the other one calls
\* GetWithPrefix, GetWithBase, Len and List.  The sync.RWMutex is the pair
\* (writer, readers); every Lock, Unlock and critical section is a step.
\* ---------------------------------------------------------------------------
MaxConcSets == 2
MaxReads == 2

\* the body of Set after its Lock: the three maps take ns
memoryStoreInsert(ms, ns) ==
    [prefix2base |-> MapSetAll(ms.prefix2base, Prefixes(ns), ns),
     base2prefix |-> MapSetAll(ms.base2prefix, BaseURIs(ns), ns),
     namespaces |-> MapSetAll(ms.namespaces, {GetID(ns)}, ns)]

\* ms.List() where no map write is under way
memoryStoreList(ms) == {ms.namespaces[id] : id \in DOMAIN ms.namespaces}

\* the Set call under way: its position, its argument, and the namespace the
\* store held under the argument's ID, and its Len, when Set was called
IdleSet == [pc |-> "idle", ns |-> <<>>, replaced |-> <<>>, lenBefore |-> 0]

\* the reader: its position in a Get call and what its last call returned
NoRead == [op |-> "none", key |-> "", err |-> "", ns |-> <<>>, len |-> 0,
           list |-> {}, fatal |-> FALSE, held |-> FALSE, during |-> IdleSet]
IdleReader == [pc |-> "idle", op |-> "none", key |-> "", last |-> NoRead]

\* Lock() and RLock() return
CanLock(st) == st.writer = 0 /\ st.readers = 0
CanRLock(st) == st.writer = 0

InitStoreConc ==
    /\ store = [used |-> TRUE, ms |-> newMemoryStore, writer |-> 0, readers |-> 0,
                set |-> IdleSet, sets |-> 0, rd |-> IdleReader, reads |-> 0,
                crashed |-> FALSE]
    /\ dsc = NoDescription
    /\ resFull = NoResult
    /\ resSparse = NoResult
    /\ cdid = NoDid
    /\ hdrFull = NoHeader
    /\ hdrSparse = NoHeader
    /\ conc = NoConc /\ server = NoServer

\* Set(ns) is called: the nil check, then on to Delete's Lock
SetCall(ns) ==
    /\ ~store.crashed
    /\ store.set.pc = "idle"
    /\ store.sets < MaxConcSets
    /\ store' = IF ns = <<>>
                THEN [store EXCEPT !.sets = @ + 1]
                ELSE [store EXCEPT !.set = [pc |-> "delete.lock", ns |-> ns,
                                            replaced |-> StoredUnder(store.ms, GetID(ns[1])),
                                            lenBefore |-> memoryStoreLen(store.ms)]]
    /\ UNCHANGED <<convVars, headerVars, conc, server>>

\* Delete: ms.Lock()
SetDeleteLock ==
    /\ ~store.crashed
    /\ store.set.pc = "delete.lock"
    /\ CanLock(store)
    /\ store' = [store EXCEPT !.writer = 1, !.set.pc = "delete.body"]
    /\ UNCHANGED <<convVars, headerVars, conc, server>>

\* Delete: the three maps lose the keys of ns
SetDeleteBody ==
    /\ ~store.crashed
    /\ store.set.pc = "delete.body"
    /\ store' = [store EXCEPT !.ms = memoryStoreDelete(store.ms, store.set.ns[1]),
                              !.set.pc = "delete.unlock"]
    /\ UNCHANGED <<convVars, headerVars, conc, server>>

\* Delete: the deferred ms.Unlock(), and Delete returns nil
SetDeleteUnlock ==
    /\ ~store.crashed
    /\ store.set.pc = "delete.unlock"
    /\ store' = [store EXCEPT !.writer = 0, !.set.pc = "set.lock"]
    /\ UNCHANGED <<convVars, headerVars, conc, server>>

\* Set: ms.Lock()
SetLock ==
    /\ ~store.crashed
    /\ store.set.pc = "set.lock"
    /\ CanLock(store)
    /\ store' = [store EXCEPT !.writer = 1, !.set.pc = "set.body"]
    /\ UNCHANGED <<convVars, headerVars, conc, server>>

\* Set: the three maps take ns
SetBody ==
    /\ ~store.crashed
    /\ store.set.pc = "set.body"
    /\ store' = [store EXCEPT !.ms = memoryStoreInsert(store.ms, store.set.ns[1]),
                              !.set.pc = "set.unlock"]
    /\ UNCHANGED <<convVars, headerVars, conc, server>>

\* Set: the deferred ms.Unlock(), and Set returns nil
SetUnlock ==
    /\ ~store.crashed
    /\ store.set.pc = "set.unlock"
    /\ store' = [store EXCEPT !.writer = 0, !.set = IdleSet, !.sets = @ + 1]
    /\ UNCHANGED <<convVars, headerVars, conc, server>>

\* GetWithPrefix(key) or GetWithBase(key) is called
GetCall(op, key) ==
    /\ ~store.crashed
    /\ store.rd.pc = "idle"
    /\ store.reads < MaxReads
    /\ store' = [store EXCEPT !.rd.pc = "rlock", !.rd.op = op, !.rd.key = key]
    /\ UNCHANGED <<convVars, headerVars, conc, server>>

\* Get: ms.RLock()
GetRLock ==
    /\ ~store.crashed
    /\ store.rd.pc = "rlock"
    /\ CanRLock(store)
    /\ store' = [store EXCEPT !.readers = @ + 1, !.rd.pc = "read"]
    /\ UNCHANGED <<convVars, headerVars, conc, server>>

\* Get: the lookup in the map
GetBody ==
    /\ ~store.crashed
    /\ store.rd.pc = "read"
    /\ LET r == IF store.rd.op = "GetWithPrefix"
                THEN GetWithPrefix(store.ms, store.rd.key)
                ELSE GetWithBase(store.ms, store.rd.key)
       IN  store' = [store EXCEPT
                        !.rd.pc = "runlock",
                        !.rd.last = [NoRead EXCEPT !.op = store.rd.op,
                                                   !.key = store.rd.key,
                                                   !.err = r.err, !.ns = r.ns,
                                                   !.held = store.readers > 0,
                                                   !.during = store.set]]
    /\ UNCHANGED <<convVars, headerVars, conc, server>>

\* Get: the deferred ms.RUnlock(), and Get returns
GetRUnlock ==
    /\ ~store.crashed
    /\ store.rd.pc = "runlock"
    /\ store' = [store EXCEPT !.readers = @ - 1, !.rd.pc = "idle", !.reads = @ + 1]
    /\ UNCHANGED <<convVars, headerVars, conc, server>>

\* Len(): len(ms.namespaces), read without the lock
LenCall ==
    /\ ~store.crashed
    /\ store.rd.pc = "idle"
    /\ store.reads < MaxReads
    /\ store' = [store EXCEPT
                    !.reads = @ + 1,
                    !.rd.last = [NoRead EXCEPT !.op = "Len",
                                               !.len = memoryStoreLen(store.ms),
                                               !.held = FALSE,
                                               !.during = store.set]]
    /\ UNCHANGED <<convVars, headerVars, conc, server>>

\* List(): the range over ms.namespaces, read without the lock.  While the
\* writer is at a map write the range is a data race: it returns the entries
\* or the runtime ends the program (concurrent map iteration and map write).
ListCall ==
    /\ ~store.crashed
    /\ store.rd.pc = "idle"
    /\ store.reads < MaxReads
    /\ \E fatal \in IF store.set.pc \in {"delete.body", "set.body"}
                    THEN BOOLEAN ELSE {FALSE} :
          store' = [store EXCEPT
                       !.reads = @ + 1,
                       !.crashed = fatal,
                       !.rd.last = [NoRead EXCEPT
                                       !.op = "List",
                                       !.list = IF fatal THEN {}
                                                ELSE memoryStoreList(store.ms),
                                       !.fatal = fatal,
                                       !.held = FALSE,
                                       !.during = store.set]]
    /\ UNCHANGED <<convVars, headerVars, conc, server>>

NextStoreConc ==
    \/ \E ns \in {<<>>} \cup {<<n>> : n \in NameSpaces} : SetCall(ns)
    \/ SetDeleteLock
    \/ SetDeleteBody
    \/ SetDeleteUnlock
    \/ SetLock
    \/ SetBody
    \/ SetUnlock
    \/ \E key \in StorePrefixes : GetCall("GetWithPrefix", key)
    \/ \E key \in StoreBases : GetCall("GetWithBase", key)
    \/ GetRLock
    \/ GetBody
    \/ GetRUnlock
    \/ LenCall
    \/ ListCall

SpecStoreConc == InitStoreConc /\ [][NextStoreConc]_vars

\* ---------------------------------------------------------------------------
\* C27: Set is atomic for concurrent callers.  While a Set overwrites a stored
\* namespace, no GetWithPrefix or GetWithBase with a key that the stored and
\* the new namespace both have returns ErrNameSpaceNotFound, no Len is below
\* the Len at the call of Set, and every read of the maps (List included) is
\* made with the store's lock held.
\* ---------------------------------------------------------------------------
\* the read was made while a Set was overwriting a stored namespace
DuringOverwrite(o) == o.during.pc # "idle" /\ o.during.replaced # <<>>

\* no Get saw the overwritten namespace absent
GetsSeeTheNamespace ==
    LET o == store.rd.last
    IN  /\ (o.op = "GetWithPrefix" /\ DuringOverwrite(o)
              /\ o.key \in Prefixes(o.during.replaced[1])
                           \cap Prefixes(o.during.ns[1]))
           => o.err = ""
        /\ (o.op = "GetWithBase" /\ DuringOverwrite(o)
              /\ o.key \in BaseURIs(o.during.replaced[1])
                           \cap BaseURIs(o.during.ns[1]))
           => o.err = ""

\* no Len saw a smaller store
LenNeverDrops ==
    LET o == store.rd.last
    IN  (o.op = "Len" /\ DuringOverwrite(o)) => o.len >= o.during.lenBefore

\* every read was made with the lock held
ReadsHoldTheLock ==
    store.rd.last.op # "none" => store.rd.last.held

C27_SetIsAtomic ==
    /\ GetsSeeTheNamespace
    /\ LenNeverDrops
    /\ ReadsHoldTheLock

====
